---------------------------- MODULE Spec2Model ----------------------------
(***************************************************************************)
(* A model of calamine's decoding pipeline (src/src/lib.rs and            *)
(* src/src/vba.rs): the A1 dimension parser, the worksheet range builder, *)
(* the MS-OVBA RLE decompressor, the CFB stream lookup and chain read,    *)
(* and the reference block of the VBA dir stream parser.                  *)
(*                                                                         *)
(* Each component has its own variables and its own specification; the    *)
(* other components' variables stay at their idle values.  Text is a      *)
(* sequence of ASCII codes and a byte stream a sequence of 0..255.  A u32  *)
(* of 2^31 or more is written as its 32-bit pattern read as a signed      *)
(* number (0xFFFFFFFE is -2), since TLC's integers are 32 bits wide.      *)
(***************************************************************************)
EXTENDS Integers, Sequences, FiniteSets, TLC

VARIABLES
    \* ---- get_dimension / get_row_column (lib.rs) ----
    dimension,      \* the text handed to the parser (sequence of char codes)
    dim_given,      \* how the text was built: raw, an encoded cell, or a range
    dim_call,       \* "none", "get_row_column" or "get_dimension"
    dim_result,     \* the ExcelResult the call returned
    \* ---- decompress_stream (vba.rs) ----
    rle_input,      \* the argument of the call
    r,              \* the unread rest of the input (mut r: &[u8])
    res,            \* the output vector
    rle_pc,         \* "start", "chunk", "run", "token", "done", "err", "panic"
    compressed_chunk_header,
    compressed_end,
    compressed_current,
    decompressed_start,
    flag_byte,
    bit_index,
    copy,           \* the locals of the last copy token decoded
    rle_err,        \* the error returned, or the panic raised
    \* ---- VbaProject (vba.rs): a constructed container and get_stream ----
    mini_sector_cutoff,   \* header.mini_sector_cutoff
    directories,          \* Vec<Directory>: [ab, sect_start, ul_size]
    sectors,              \* Sector: [data, size, fats]
    mini_sectors,         \* Option<Sector>
    gs_name,              \* get_stream's argument
    gs_pc,                \* "ready", "read_chain", "done", "panic"
    gs_entry,             \* index of the entry `find` returned (0: none)
    chain_pool,           \* the Sector read_chain runs on
    sector_id,            \* read_chain's sector_id
    buffer,               \* read_chain's buffer
    gs_result,            \* Option<Vec<u8>> returned by get_stream
    \* ---- Range::from_worksheet (lib.rs) ----
    ws_xml,               \* the worksheet as the XmlReader's event sequence
    strings,              \* the shared strings
    ws_next,              \* index of the event xml.next() returns next
    ws_pc,                \* "outer", "sheet", "cell", "done", "err", "panic"
    data_position,        \* data.position
    data_size,            \* data.size
    data_inner,           \* data.inner
    c_element,            \* the `t` attribute of the <c> being read
    ws_err,               \* the error returned, or the panic raised
    \* ---- VbaProject::read_references (vba.rs) ----
    ref_given,            \* the records the stream was encoded from
    stream,               \* the bytes not yet read
    references,           \* Vec<Reference>
    reference,            \* the in-flight Reference: [name, description, path]
    ref_pc,               \* "loop", "done", "err", "panic"
    ref_err,              \* the error returned, or the panic raised
    \* ---- VbaProject::read_modules (vba.rs) ----
    mod_given,            \* the module block the stream was encoded from
    mod_stream,           \* the bytes not yet read
    modules,              \* Vec<Module>
    module,               \* the Module being read: [name, stream_name, text_offset]
    mod_left,             \* iterations of `for _ in 0..module_len` still to run
    mod_pc,               \* "preamble", "module", "section", "done", "err", "panic"
    mod_err,              \* the error returned, or the panic raised
    \* ---- VbaProject::get_code_modules (vba.rs) ----
    pj_given,             \* the lines the PROJECT stream was written from
    pj_project,           \* get_stream("PROJECT"): Option<Vec<u8>>
    pj_stream,            \* the bytes not yet read
    line,                 \* the line read_line returned last
    lines_read,           \* how many lines read_line has returned
    code_modules,         \* HashMap<String, &str> as a set of <<key, value>>
    pj_pc,                \* "start", "loop", "done", "err"
    pj_err,               \* the error returned
    \* ---- VbaProject::new (vba.rs) ----
    new_given,            \* what the image was written from
    image,                \* f: the bytes of the image
    sector,               \* Sector::new(data, sector_size)
    fat_sectors,          \* the FAT-sector list
    dif_sector_id,        \* sector_id of the DIF walk
    dif_steps,            \* how many DIF sectors the walk has read
    fat_index,            \* how many listed ids the FAT loop has taken
    fat,                  \* the master FAT
    new_pc,               \* "start", "dif", "fat", "done", "err", "panic"
    new_err,              \* the error returned, or the panic raised
    \* ---- Excel::worksheet_range and its caches (lib.rs) ----
    fc_given,             \* the workbook: xl/sharedStrings.xml and the parts
    self_strings,         \* self.strings
    self_sheets,          \* self.sheets as a set of <<name, part index>>
    local_strings,        \* read_shared_strings: let mut strings
    xml_pos,              \* how many events of sharedStrings.xml were taken
    fc_name,              \* the name the call was given
    fc_calls,             \* how many calls were made
    fc_result,            \* what the last finished call returned
    succeeded,            \* a call has returned a Range
    rereads,              \* reads of sharedStrings.xml begun after that
    rescans,              \* scans of the parts begun after that
    fc_pc                 \* "idle", "read_shared_strings", "xml",
                          \* "read_sheets_names", "get"

dimVars == <<dimension, dim_given, dim_call, dim_result>>

rleLocals == <<compressed_chunk_header, compressed_end, compressed_current,
               decompressed_start, flag_byte, bit_index, copy>>

rleVars == <<rle_input, r, res, rle_pc, rleLocals, rle_err>>

cfbContainer == <<mini_sector_cutoff, directories, sectors, mini_sectors>>

cfbVars == <<cfbContainer, gs_name, gs_pc, gs_entry, chain_pool, sector_id,
             buffer, gs_result>>

wsData == <<data_position, data_size, data_inner>>

wsVars == <<ws_xml, strings, ws_next, ws_pc, wsData, c_element, ws_err>>

refVars == <<ref_given, stream, references, reference, ref_pc, ref_err>>

modVars == <<mod_given, mod_stream, modules, module, mod_left, mod_pc, mod_err>>

pjVars == <<pj_given, pj_project, pj_stream, line, lines_read, code_modules,
           pj_pc, pj_err>>

newVars == <<new_given, image, sector, fat_sectors, dif_sector_id, dif_steps,
            fat_index, fat, new_pc, new_err>>

fcVars == <<fc_given, self_strings, self_sheets, local_strings, xml_pos, fc_name,
           fc_calls, fc_result, succeeded, rereads, rescans, fc_pc>>

vars == <<dimVars, rleVars, cfbVars, wsVars, refVars, modVars, pjVars, newVars,
          fcVars>>

\* what a component's actions leave alone: the other components
exceptDim == <<rleVars, cfbVars, wsVars, refVars, modVars, pjVars, newVars, fcVars>>

exceptRle == <<dimVars, cfbVars, wsVars, refVars, modVars, pjVars, newVars, fcVars>>

exceptCfb == <<dimVars, rleVars, wsVars, refVars, modVars, pjVars, newVars, fcVars>>

exceptWs == <<dimVars, rleVars, cfbVars, refVars, modVars, pjVars, newVars, fcVars>>

exceptRef == <<dimVars, rleVars, cfbVars, wsVars, modVars, pjVars, newVars, fcVars>>

exceptMod == <<dimVars, rleVars, cfbVars, wsVars, refVars, pjVars, newVars, fcVars>>

exceptPj == <<dimVars, rleVars, cfbVars, wsVars, refVars, modVars, newVars, fcVars>>

exceptNew == <<dimVars, rleVars, cfbVars, wsVars, refVars, modVars, pjVars, fcVars>>

exceptFc == <<dimVars, rleVars, cfbVars, wsVars, refVars, modVars, pjVars, newVars>>

-----------------------------------------------------------------------------
(* Generic helpers *)

Min(a, b) == IF a < b THEN a ELSE b

Max(a, b) == IF a > b THEN a ELSE b

RECURSIVE Pow(_, _)
Pow(b, e) == IF e = 0 THEN 1 ELSE b * Pow(b, e - 1)

SeqsUpTo(S, n) == UNION {[1..k -> S] : k \in 0..n}

DropNothing(s, n) == s

Drop(s, n) == SubSeq(s, n + 1, Len(s))

Take(s, n) == SubSeq(s, 1, n)

-----------------------------------------------------------------------------
(* Dimension parser: lib.rs get_row_column, get_dimension *)

IsDigit(c) == c \in 48..57

IsUpper(c) == c \in 65..90

IsLower(c) == c \in 97..122

Colon == 58

Err(e) == [ok |-> FALSE, err |-> e]

Ok(v) == [ok |-> TRUE, val |-> v]

\* the column digit of a letter: (c as u8 - b'A') + 1, resp. b'a'
LetterValueUpperOnly(c) == c - 65 + 1

LetterValue(c) == IF IsUpper(c) THEN c - 65 + 1 ELSE c - 97 + 1

\* the loop `for c in range.chars().rev()`: i is the char about to be read
RECURSIVE RowColumnScan(_, _, _)
RowColumnScan(range, i, st) ==
    IF i = 0 THEN st
    ELSE LET c == range[i] IN
         IF IsDigit(c)
         THEN IF st.readrow
              THEN RowColumnScan(range, i - 1, [st EXCEPT !.rowpos = @ - 1])
              ELSE [st EXCEPT !.err = "Unexpected"]
         ELSE IF IsUpper(c) \/ IsLower(c)
         THEN RowColumnScan(range, i - 1,
                  [st EXCEPT !.readrow = FALSE,
                             !.col = @ + LetterValue(c) * st.pow,
                             !.pow = @ * 26])
         ELSE [st EXCEPT !.err = "Unexpected"]

RECURSIVE DecimalValue(_)
DecimalValue(digits) ==
    IF digits = <<>> THEN 0
    ELSE 10 * DecimalValue(Take(digits, Len(digits) - 1))
         + (digits[Len(digits)] - 48)

\* str::parse::<u32>() of a string of decimal digits: empty and overflowing
\* strings are errors.  Ten digits or more are taken as overflow; the rows of
\* this model have at most nine.
ParseU32(digits) ==
    IF digits = <<>> THEN Err("ParseIntError")
    ELSE IF Len(digits) > 9 THEN Err("ParseIntError")
    ELSE Ok(DecimalValue(digits))

get_row_column(range) ==
    LET st == RowColumnScan(range, Len(range),
                  [col |-> 0, pow |-> 1, rowpos |-> Len(range),
                   readrow |-> TRUE, err |-> "none"])
        row == ParseU32(Drop(range, st.rowpos))
    IN  IF st.err # "none" THEN Err(st.err)
        ELSE IF ~row.ok THEN row
        ELSE Ok(<<row.val, st.col>>)

\* dimension.chars().position(|c| c == ':'), 0 when there is none
ColonPosition(s) ==
    IF \E i \in 1..Len(s) : s[i] = Colon
    THEN CHOOSE i \in 1..Len(s) : s[i] = Colon /\ \A j \in 1..(i - 1) : s[j] # Colon
    ELSE 0

\* u32 `a - b + 1`: a debug build panics on underflow, a release build wraps
\* (the wrapped value is a - b + 1 as a 32-bit pattern)
SubPlusOne(a, b, overflow_checks) ==
    IF a >= b THEN Ok(a - b + 1)
    ELSE IF overflow_checks THEN Err("panic")
    ELSE Ok(a - b + 1)

\* line 295: (bottom_right.0 - top_left.0 + 1, bottom_right.1 - top_left.1 + 1)
SizeOf(top_left, bottom_right, overflow_checks) ==
    <<SubPlusOne(bottom_right[1], top_left[1], overflow_checks),
      SubPlusOne(bottom_right[2], top_left[2], overflow_checks)>>

get_dimension(dim, overflow_checks) ==
    LET p == ColonPosition(dim) IN
    IF p = 0
    THEN LET position == get_row_column(dim) IN
         IF position.ok THEN Ok(<<position.val, <<1, 1>>>>) ELSE position
    ELSE LET top_left == get_row_column(Take(dim, p - 1))
             bottom_right == get_row_column(Drop(dim, p))
         IN  IF ~top_left.ok THEN top_left
             ELSE IF ~bottom_right.ok THEN bottom_right
             ELSE LET size == SizeOf(top_left.val, bottom_right.val, overflow_checks)
                  IN  IF ~size[1].ok THEN size[1]
                      ELSE IF ~size[2].ok THEN size[2]
                      ELSE Ok(<<top_left.val, <<size[1].val, size[2].val>>>>)

-----------------------------------------------------------------------------
(* RLE decompressor: vba.rs decompress_stream *)

RECURSIVE BitAnd(_, _)
BitAnd(a, b) ==
    IF a = 0 \/ b = 0 THEN 0
    ELSE (a % 2) * (b % 2) + 2 * BitAnd(a \div 2, b \div 2)

ShiftRight(a, n) == a \div Pow(2, n)

\* !x on a u16
Not16(a) == 65535 - a

\* read_u16::<LittleEndian>() of the first two bytes
ReadU16(s) == s[1] + 256 * s[2]

\* r.len() as u16
AsU16(n) == n % 65536

\* (compressed_chunk_header & 0x8000) >> 15
chunk_is_compressed(header) == ShiftRight(BitAnd(header, 32768), 15)

\* (compressed_chunk_header & 0x0FFF) + 3
chunk_size(header) == BitAnd(header, 4095) + 3

RECURSIVE CeilLog2From(_, _)
CeilLog2From(d, k) == IF Pow(2, k) >= d THEN k ELSE CeilLog2From(d, k + 1)

\* difference.log2().ceil() as u8: log2(0) is -inf, and a float-to-integer `as`
\* cast saturates, so the cast gives 0
Log2CeilAsU8(difference) == IF difference = 0 THEN 0 ELSE CeilLog2From(difference, 0)

bit_count_no_minimum(difference) == Log2CeilAsU8(difference)

bit_count(difference) == Max(Log2CeilAsU8(difference), 4)

len_mask(difference) == ShiftRight(65535, bit_count(difference))

offset_mask(difference) == Not16(len_mask(difference))

\* the locals of lines 536-545 for a copy token read with res_len output bytes
CopyTokenLocals(copy_token, res_len, start) ==
    LET difference == res_len - start
        len == BitAnd(copy_token, len_mask(difference)) + 3
        temp1 == BitAnd(copy_token, offset_mask(difference))
        temp2 == 16 - bit_count(difference)
        offset == ShiftRight(temp1, temp2) + 1
    IN  [copy_token |-> copy_token, difference |-> difference,
         bit_count |-> bit_count(difference), len |-> len, offset |-> offset,
         copy_source |-> res_len - offset]

\* for i in 0..len { let val = res[copy_source + i]; res.push(val); }
\* Iteration i reads index copy_source + i = old_len - offset + i: a byte of the
\* old output when i < offset, else the byte iteration i - offset pushed; so
\* iteration i pushes the old byte at copy_source + (i mod offset).  (Written
\* without recursion: a copy is up to 4098 bytes long.)
CopyLoop(buf, copy_source, len) ==
    LET offset == Len(buf) - copy_source IN
    buf \o [i \in 1..len |-> buf[copy_source + ((i - 1) % offset) + 1]]

NoCopy ==
    [copy_token |-> 0, difference |-> 0, bit_count |-> 0, len |-> 0,
     offset |-> 0, copy_source |-> 0]

RleIdle ==
    /\ rle_input = <<>>
    /\ r = <<>>
    /\ res = <<>>
    /\ rle_pc = "idle"
    /\ compressed_chunk_header = 0
    /\ compressed_end = 0
    /\ compressed_current = 0
    /\ decompressed_start = 0
    /\ flag_byte = 0
    /\ bit_index = 0
    /\ copy = NoCopy
    /\ rle_err = "none"

RleFail(pc, e) ==
    /\ rle_pc' = pc
    /\ rle_err' = e
    /\ UNCHANGED <<exceptRle, rle_input, r, res, rleLocals>>

\* line 502: the signature byte
ReadSignature ==
    /\ rle_pc = "start"
    /\ IF r = <<>> THEN RleFail("err", "eof: signature")
       ELSE IF r[1] # 1 THEN RleFail("err", "invalid signature byte")
       ELSE /\ r' = Tail(r)
            /\ rle_pc' = "chunk"
            /\ UNCHANGED <<exceptRle, rle_input, res, rleLocals, rle_err>>

\* line 506: while !r.is_empty() ... Ok(res)
EndOfInput ==
    /\ rle_pc = "chunk"
    /\ r = <<>>
    /\ rle_pc' = "done"
    /\ UNCHANGED <<exceptRle, rle_input, r, res, rleLocals, rle_err>>

\* line 508 with one byte left
ChunkHeaderEof ==
    /\ rle_pc = "chunk"
    /\ Len(r) = 1
    /\ RleFail("err", "eof: chunk header")

\* lines 508-516: an uncompressed chunk is 4096 bytes, read with read_exact
UncompressedChunk ==
    /\ rle_pc = "chunk"
    /\ Len(r) >= 2
    /\ chunk_is_compressed(ReadU16(r)) = 0
    /\ IF Len(r) - 2 < 4096 THEN RleFail("err", "eof: uncompressed chunk")
       ELSE /\ res' = res \o SubSeq(r, 3, 4098)
            /\ r' = Drop(r, 4098)
            /\ compressed_chunk_header' = ReadU16(r)
            /\ UNCHANGED <<exceptRle, rle_input, rle_pc, compressed_end, compressed_current,
                           decompressed_start, flag_byte, bit_index, copy, rle_err>>

\* lines 508-521: the header of a compressed chunk
CompressedChunk ==
    /\ rle_pc = "chunk"
    /\ Len(r) >= 2
    /\ chunk_is_compressed(ReadU16(r)) # 0
    /\ compressed_chunk_header' = ReadU16(r)
    /\ r' = Drop(r, 2)
    /\ compressed_end' = Min(AsU16(Len(r) - 2), chunk_size(ReadU16(r)))
    /\ decompressed_start' = Len(res)
    /\ compressed_current' = 0
    /\ rle_pc' = "run"
    /\ UNCHANGED <<exceptRle, rle_input, res, flag_byte, bit_index, copy, rle_err>>

\* line 522: the token-run loop ends
ChunkEnd ==
    /\ rle_pc = "run"
    /\ compressed_current >= compressed_end
    /\ rle_pc' = "chunk"
    /\ UNCHANGED <<exceptRle, rle_input, r, res, rleLocals, rle_err>>

\* lines 523-524
ReadFlagByte ==
    /\ rle_pc = "run"
    /\ compressed_current < compressed_end
    /\ IF r = <<>> THEN RleFail("err", "eof: flag byte")
       ELSE /\ flag_byte' = r[1]
            /\ r' = Tail(r)
            /\ compressed_current' = compressed_current + 1
            /\ bit_index' = 0
            /\ rle_pc' = "token"
            /\ UNCHANGED <<exceptRle, rle_input, res, compressed_chunk_header, compressed_end,
                           decompressed_start, copy, rle_err>>

\* lines 527-529
TokenBreak ==
    /\ rle_pc = "token"
    /\ compressed_current >= compressed_end
    /\ rle_pc' = "run"
    /\ UNCHANGED <<exceptRle, rle_input, r, res, rleLocals, rle_err>>

IsCopyToken == BitAnd(Pow(2, bit_index), flag_byte) # 0

\* for bit_index in 0..8
AfterToken ==
    /\ bit_index' = bit_index + 1
    /\ rle_pc' = IF bit_index = 7 THEN "run" ELSE "token"

\* lines 531-533
LiteralToken ==
    /\ rle_pc = "token"
    /\ compressed_current < compressed_end
    /\ ~IsCopyToken
    /\ IF r = <<>> THEN RleFail("err", "eof: literal")
       ELSE /\ res' = Append(res, r[1])
            /\ r' = Tail(r)
            /\ compressed_current' = compressed_current + 1
            /\ AfterToken
            /\ UNCHANGED <<exceptRle, rle_input, compressed_chunk_header, compressed_end,
                           decompressed_start, flag_byte, copy, rle_err>>

\* lines 535-550
CopyToken ==
    /\ rle_pc = "token"
    /\ compressed_current < compressed_end
    /\ IsCopyToken
    /\ IF Len(r) < 2 THEN RleFail("err", "eof: copy token")
       ELSE LET t == CopyTokenLocals(ReadU16(r), Len(res), decompressed_start) IN
            IF t.copy_source < 0
            THEN \* res.len() - offset underflows, or res[copy_source] is out of range
                 /\ rle_pc' = "panic"
                 /\ rle_err' = "panic: copy source"
                 /\ copy' = t
                 /\ r' = Drop(r, 2)
                 /\ UNCHANGED <<exceptRle, rle_input, res, compressed_chunk_header, compressed_end,
                                compressed_current, decompressed_start, flag_byte,
                                bit_index>>
            ELSE /\ res' = CopyLoop(res, t.copy_source, t.len)
                 /\ copy' = t
                 /\ r' = Drop(r, 2)
                 /\ compressed_current' = compressed_current + 2
                 /\ AfterToken
                 /\ UNCHANGED <<exceptRle, rle_input, compressed_chunk_header, compressed_end,
                                decompressed_start, flag_byte, rle_err>>

-----------------------------------------------------------------------------
(* The decompressor applied to bounded inputs *)

MaxBody == 6

\* 0x00, 0x01, 0x02 (headers, flag bytes, tokens), 'A', 0xB0 (compressed header)
RleAlphabet == {0, 1, 2, 65, 176}

EnumeratedInputs ==
    {<<>>, <<0>>} \cup {<<1>> \o b : b \in SeqsUpTo(RleAlphabet, MaxBody)}

\* one chunk: a literal, a copy token that fills the chunk's output up to
\* `fill` bytes, and a second copy token <<lo, hi>>
DeepCopyInput(fill, lo, hi) ==
    <<1, 5, 176, 6, 65, (fill - 4) % 256, (fill - 4) \div 256, lo, hi>>

FillSizes == {4, 16, 17, 32, 33, 257}

TokenBytes == {0, 1, 8, 255}

DeepCopyInputs ==
    {DeepCopyInput(f, lo, hi) : f \in FillSizes, lo \in TokenBytes, hi \in TokenBytes}

\* header 0x8003, flag byte 0x00, literal 0xAB
ScenarioS6 == <<1, 3, 128, 0, 171>>

\* an uncompressed chunk of 4096 bytes, then a compressed chunk of one literal
UncompressedInput == <<1, 0, 48>> \o [i \in 1..4096 |-> 7] \o <<1, 176, 0, 65>>

\* an uncompressed chunk, then a compressed chunk that starts with a copy
\* token (read with difference = 0)
UncompressedThenCopy == <<1, 0, 48>> \o [i \in 1..4096 |-> 7] \o <<1, 176, 1, 0, 0>>

RleInputs ==
    EnumeratedInputs \cup DeepCopyInputs
        \cup {ScenarioS6, UncompressedInput, UncompressedThenCopy}

RleInit ==
    /\ rle_input \in RleInputs
    /\ r = rle_input
    /\ res = <<>>
    /\ rle_pc = "start"
    /\ compressed_chunk_header = 0
    /\ compressed_end = 0
    /\ compressed_current = 0
    /\ decompressed_start = 0
    /\ flag_byte = 0
    /\ bit_index = 0
    /\ copy = NoCopy
    /\ rle_err = "none"

-----------------------------------------------------------------------------
(* CFB container: vba.rs Sector::get, Sector::read_chain, get_stream *)

ENDOFCHAIN == -2

FREESECT == -1

None == [some |-> FALSE]

Some(v) == [some |-> TRUE, val |-> v]

\* Directory::get_name: the UTF-16 name cut at the first NUL
RECURSIVE get_name(_)
get_name(ab) ==
    IF ab = <<>> \/ ab[1] = 0 THEN <<>> ELSE <<ab[1]>> \o get_name(Tail(ab))

\* Sector::get: &self.data[id * size .. (id + 1) * size]; a slice that is out
\* of range panics (an id of 2^31 or more is written as a negative number)
InRange(s, id) == id >= 0 /\ (id + 1) * s.size <= Len(s.data)

get(s, id) == SubSeq(s.data, id * s.size + 1, (id + 1) * s.size)

\* self.fats[sector_id as usize] exists
HasFat(s, id) == id >= 0 /\ id < Len(s.fats)

\* Sector::read_chain as a function, for the chains VbaProject::new reads:
\* Some(bytes) when the walk ends, None when it panics or never ends (a walk
\* that is not over after fats.len() sectors has come back to one of them)
RECURSIVE ChainFrom(_, _, _)
ChainFrom(s, id, fuel) ==
    IF id = ENDOFCHAIN THEN Some(<<>>)
    ELSE IF fuel = 0 \/ ~InRange(s, id) \/ ~HasFat(s, id) THEN None
    ELSE LET rest == ChainFrom(s, s.fats[id + 1], fuel - 1) IN
         IF rest.some THEN Some(get(s, id) \o rest.val) ELSE None

read_chain(s, id) == ChainFrom(s, id, Len(s.fats))

\* Vec::truncate
Truncate(data, n) == IF n < Len(data) THEN Take(data, n) ELSE data

\* directories.iter().find(|d| d.get_name() == name): its index, 0 for None
RECURSIVE FindFrom(_, _, _)
FindFrom(dirs, name, i) ==
    IF i > Len(dirs) THEN 0
    ELSE IF get_name(dirs[i].ab) = name THEN i
    ELSE FindFrom(dirs, name, i + 1)

Find(dirs, name) == FindFrom(dirs, name, 1)

UsesRegularPoolAlways(d, cutoff) == FALSE

\* line 110: d.ul_size < self.header.mini_sector_cutoff
UsesMiniPool(d, cutoff) == d.ul_size < cutoff

CfbIdle ==
    /\ mini_sector_cutoff = 0
    /\ directories = <<>>
    /\ sectors = [data |-> <<>>, size |-> 1, fats |-> <<>>]
    /\ mini_sectors = None
    /\ gs_name = <<>>
    /\ gs_pc = "idle"
    /\ gs_entry = 0
    /\ chain_pool = "none"
    /\ sector_id = ENDOFCHAIN
    /\ buffer = <<>>
    /\ gs_result = None

Pool == IF chain_pool = "mini_sectors" THEN mini_sectors.val ELSE sectors

\* lines 106-109: no entry has the name
GetStreamNotFound(name) ==
    /\ gs_pc = "ready"
    /\ Find(directories, name) = 0
    /\ gs_name' = name
    /\ gs_entry' = 0
    /\ gs_result' = None
    /\ gs_pc' = "done"
    /\ UNCHANGED <<exceptCfb, cfbContainer, chain_pool, sector_id, buffer>>

\* lines 110-113 with mini_sectors = None: Vec::new(), truncated
GetStreamNoMiniPool(name) ==
    /\ gs_pc = "ready"
    /\ Find(directories, name) # 0
    /\ UsesMiniPool(directories[Find(directories, name)], mini_sector_cutoff)
    /\ ~mini_sectors.some
    /\ gs_name' = name
    /\ gs_entry' = Find(directories, name)
    /\ gs_result' = Some(Truncate(<<>>, directories[Find(directories, name)].ul_size))
    /\ gs_pc' = "done"
    /\ UNCHANGED <<exceptCfb, cfbContainer, chain_pool, sector_id, buffer>>

\* lines 110-115: read_chain(d.sect_start) is entered on one of the two pools
GetStreamReadChain(name) ==
    /\ gs_pc = "ready"
    /\ Find(directories, name) # 0
    /\ LET d == directories[Find(directories, name)] IN
       /\ UsesMiniPool(d, mini_sector_cutoff) => mini_sectors.some
       /\ chain_pool' = IF UsesMiniPool(d, mini_sector_cutoff)
                        THEN "mini_sectors" ELSE "sectors"
       /\ sector_id' = d.sect_start
    /\ gs_name' = name
    /\ gs_entry' = Find(directories, name)
    /\ buffer' = <<>>
    /\ gs_pc' = "read_chain"
    /\ UNCHANGED <<exceptCfb, cfbContainer, gs_result>>

\* lines 587-590: one turn of the loop.  The model stops following a walk
\* that has emitted more sectors than the FAT has entries: it has been at one
\* of them twice and, being deterministic, goes round for ever.
ReadChainStep ==
    /\ gs_pc = "read_chain"
    /\ sector_id # ENDOFCHAIN
    /\ Len(buffer) <= Len(Pool.fats) * Pool.size
    /\ IF InRange(Pool, sector_id) /\ HasFat(Pool, sector_id)
       THEN /\ buffer' = buffer \o get(Pool, sector_id)
            /\ sector_id' = Pool.fats[sector_id + 1]
            /\ UNCHANGED gs_pc
       ELSE /\ gs_pc' = "panic"
            /\ UNCHANGED <<buffer, sector_id>>
    /\ UNCHANGED <<exceptCfb, cfbContainer, gs_name, gs_entry, chain_pool, gs_result>>

\* lines 587, 591 and 116-117: the loop ends, the data is truncated
ReadChainEnd ==
    /\ gs_pc = "read_chain"
    /\ sector_id = ENDOFCHAIN
    /\ gs_result' = Some(Truncate(buffer, directories[gs_entry].ul_size))
    /\ gs_pc' = "done"
    /\ UNCHANGED <<exceptCfb, cfbContainer, gs_name, gs_entry, chain_pool,
                   sector_id, buffer>>

-----------------------------------------------------------------------------
(* get_stream on bounded containers, as VbaProject::new leaves them *)

NumSectors == 2

SectorShift == 1

MiniSectorShift == 0

MiniSectorCutoff == 2

MaxStreamSize == 4

SectorIds == (0..(NumSectors - 1)) \cup {ENDOFCHAIN, FREESECT}

\* sector contents: the bytes are numbered, so that a result shows its source
RegularSectors(fats) ==
    [data |-> [i \in 1..(NumSectors * Pow(2, SectorShift)) |-> i],
     size |-> Pow(2, SectorShift),
     fats |-> fats]

\* mini-FATs (read from the chain at sect_mini_fat_start): one chain through
\* all mini sectors, every chain one sector long, every sector its own successor
MiniFats(n) ==
    {[i \in 1..n |-> IF i = n THEN ENDOFCHAIN ELSE i],
     [i \in 1..n |-> ENDOFCHAIN],
     [i \in 1..n |-> i - 1]}

\* lines 81-95: no mini pool when the root entry starts at ENDOFCHAIN; else
\* the root's chain, truncated to its size, with the mini-FAT
MiniPools(regular, root) ==
    IF root.sect_start = ENDOFCHAIN THEN {None}
    ELSE LET ministream == Truncate(read_chain(regular, root.sect_start).val,
                                    root.ul_size)
             mini_sector_size == Pow(2, MiniSectorShift)
         IN  {Some([data |-> ministream, size |-> mini_sector_size, fats |-> f]) :
                 f \in MiniFats(Len(ministream) \div mini_sector_size)}

\* the root entry: start ENDOFCHAIN, or a chain that VbaProject::new could
\* read (it ends) and whose length is the root's size
RootEntries(regular) ==
    {[ab |-> <<82, 0, 0>>, sect_start |-> ENDOFCHAIN, ul_size |-> 0]}
    \cup {[ab |-> <<82, 0, 0>>, sect_start |-> 0,
           ul_size |-> Len(read_chain(regular, 0).val)] :
             x \in {y \in {0} : read_chain(regular, 0).some}}

\* names: "a" (followed by NUL and a stray unit), "b"
StreamEntries ==
    {[ab |-> n, sect_start |-> st, ul_size |-> sz] :
        n \in {<<97, 0, 98>>, <<98, 0, 0>>}, st \in SectorIds,
        sz \in 0..MaxStreamSize}

LastEntries ==
    {[ab |-> <<97, 0, 0>>, sect_start |-> st, ul_size |-> sz] :
        st \in {0, ENDOFCHAIN}, sz \in {1, MiniSectorCutoff + 1}}

CfbInit ==
    /\ mini_sector_cutoff = MiniSectorCutoff
    /\ \E fats \in [1..NumSectors -> SectorIds] :
          /\ sectors = RegularSectors(fats)
          /\ \E root \in RootEntries(RegularSectors(fats)) :
                /\ mini_sectors \in MiniPools(RegularSectors(fats), root)
                /\ \E d1 \in StreamEntries : \E d2 \in LastEntries :
                      directories = <<root, d1, d2>>
    /\ gs_name = <<>>
    /\ gs_pc = "ready"
    /\ gs_entry = 0
    /\ chain_pool = "none"
    /\ sector_id = ENDOFCHAIN
    /\ buffer = <<>>
    /\ gs_result = None

-----------------------------------------------------------------------------
(* The dimension parser applied to bounded inputs *)

MaxTextLen == 4

MaxRow == 11

MaxCol == 56

MaxRangeCoord == 3

\* 'A', 'b', '0', '1', ':', '$'
DimAlphabet == {65, 98, 48, 49, 58, 36}

\* Excel's last row and last column, and the first three-letter columns
RowSamples == (1..MaxRow) \cup {100, 1048575, 1048576}

ColSamples == (1..MaxCol) \cup {702, 703, 16383, 16384}

RECURSIVE Decimal(_)
Decimal(n) == IF n < 10 THEN <<48 + n>> ELSE Decimal(n \div 10) \o <<48 + (n % 10)>>

\* bijective base-26 column letters, A=1 .. Z=26
RECURSIVE ColumnLetters(_, _)
ColumnLetters(c, lower) ==
    IF c = 0 THEN <<>>
    ELSE ColumnLetters((c - 1) \div 26, lower)
         \o <<(IF lower THEN 97 ELSE 65) + ((c - 1) % 26)>>

A1(row, col, lower) == ColumnLetters(col, lower) \o Decimal(row)

RawGiven == {[kind |-> "raw", text |-> t] : t \in SeqsUpTo(DimAlphabet, MaxTextLen)}

CellGiven ==
    {[kind |-> "cell", row |-> rw, col |-> c, lower |-> l] :
        rw \in RowSamples, c \in ColSamples, l \in BOOLEAN}

RangeGiven ==
    {[kind |-> "range", r1 |-> a, c1 |-> b, r2 |-> c, c2 |-> d] :
        a \in 1..MaxRangeCoord, b \in 1..MaxRangeCoord,
        c \in 1..MaxRangeCoord, d \in 1..MaxRangeCoord}

TextOf(g) ==
    IF g.kind = "raw" THEN g.text
    ELSE IF g.kind = "cell" THEN A1(g.row, g.col, g.lower)
    ELSE A1(g.r1, g.c1, FALSE) \o <<Colon>> \o A1(g.r2, g.c2, FALSE)

DimIdle ==
    /\ dimension = <<>>
    /\ dim_given = [kind |-> "idle"]
    /\ dim_call = "idle"
    /\ dim_result = Err("none")

DimInit ==
    /\ dim_given \in RawGiven \cup CellGiven \cup RangeGiven
    /\ dimension = TextOf(dim_given)
    /\ dim_call = "none"
    /\ dim_result = Err("none")

CallGetRowColumn ==
    /\ dim_call = "none"
    /\ dim_call' = "get_row_column"
    /\ dim_result' = get_row_column(dimension)
    /\ UNCHANGED <<dimension, dim_given, exceptDim>>

CallGetDimension ==
    /\ dim_call = "none"
    /\ \E overflow_checks \in BOOLEAN :
          dim_result' = get_dimension(dimension, overflow_checks)
    /\ dim_call' = "get_dimension"
    /\ UNCHANGED <<dimension, dim_given, exceptDim>>

-----------------------------------------------------------------------------
(* Worksheet loading: lib.rs Range::from_worksheet, Range::read_sheet_data *)

\* XmlReader events; attr is the one attribute the code looks up (`ref` of
\* <dimension>, `t` of <c>), None when it is absent
Start(name, attr) == [ev |-> "Start", name |-> name, attr |-> attr, text |-> <<>>]

End(name) == [ev |-> "End", name |-> name, attr |-> None, text |-> <<>>]

Text(t) == [ev |-> "Text", name |-> "", attr |-> None, text |-> t]

XmlError == [ev |-> "Err", name |-> "", attr |-> None, text |-> <<>>]

\* DataType
DataTypeInt(i) == [type |-> "Int", int |-> i, text |-> <<>>]

DataTypeFloat(t) == [type |-> "Float", int |-> 0, text |-> t]

DataTypeString(t) == [type |-> "String", int |-> 0, text |-> t]

DataTypeEmpty == [type |-> "Empty", int |-> 0, text |-> <<>>]

AllDigits(t) == t # <<>> /\ \A i \in 1..Len(t) : IsDigit(t[i])

\* '+' = 43, '-' = 45, '.' = 46
Unsigned(t) == IF t # <<>> /\ t[1] \in {43, 45} THEN Tail(t) ELSE t

\* str::parse::<usize>(): decimal digits after an optional '+'
ParseUsize(t) ==
    LET digits == IF t # <<>> /\ t[1] = 43 THEN Tail(t) ELSE t IN
    IF AllDigits(digits) /\ Len(digits) <= 9 THEN Ok(DecimalValue(digits))
    ELSE Err("ParseIntError")

\* str::parse::<i64>(): decimal digits after an optional sign
ParseI64(t) ==
    IF AllDigits(Unsigned(t)) /\ Len(Unsigned(t)) <= 9
    THEN Ok((IF t[1] = 45 THEN -1 ELSE 1) * DecimalValue(Unsigned(t)))
    ELSE Err("ParseIntError")

\* str::parse::<f64>(), for texts of digits with one decimal point and an
\* optional sign (exponents and inf/nan are not among the texts used here);
\* the value is kept as its text
ParseF64(t) ==
    LET u == Unsigned(t)
        points == {i \in 1..Len(u) : u[i] = 46}
    IN  IF /\ Cardinality(points) <= 1
           /\ \E i \in 1..Len(u) : IsDigit(u[i])
           /\ \A i \in 1..Len(u) : IsDigit(u[i]) \/ u[i] = 46
        THEN Ok(t)
        ELSE Err("ParseFloatError")

\* lines 235-249: the DataType of a <v> text; `t="s"` is a shared-string index
\* and strings[idx] panics when idx is out of range
CellValue(t_attr, v, strs) ==
    IF t_attr = Some(<<115>>)
    THEN LET idx == ParseUsize(v) IN
         IF ~idx.ok THEN idx
         ELSE IF idx.val >= Len(strs) THEN Err("panic")
         ELSE Ok(DataTypeString(strs[idx.val + 1]))
    ELSE IF ParseI64(v).ok THEN Ok(DataTypeInt(ParseI64(v).val))
    ELSE IF ParseF64(v).ok THEN Ok(DataTypeFloat(ParseF64(v).val))
    ELSE Err("ParseFloatError")

\* index of the first End(name) at or after i, 0 when there is none
RECURSIVE EndFrom(_, _, _)
EndFrom(xml, i, name) ==
    IF i > Len(xml) \/ xml[i].ev = "Err" THEN 0
    ELSE IF xml[i] = End(name) THEN i
    ELSE EndFrom(xml, i + 1, name)

\* xml.read_text(b"v") with xml.next() at index i: the text of the element and
\* the index after its end tag
read_text(xml, i, name) ==
    IF i > Len(xml) THEN [text |-> Err("Xml"), next |-> i]
    ELSE IF xml[i] = End(name) THEN [text |-> Ok(<<>>), next |-> i + 1]
    ELSE IF xml[i].ev = "Text" /\ EndFrom(xml, i + 1, name) # 0
    THEN [text |-> Ok(xml[i].text), next |-> EndFrom(xml, i + 1, name) + 1]
    ELSE [text |-> Err("Xml"), next |-> i + 1]

WsIdle ==
    /\ ws_xml = <<>>
    /\ strings = <<>>
    /\ ws_next = 0
    /\ ws_pc = "idle"
    /\ data_position = <<0, 0>>
    /\ data_size = <<0, 0>>
    /\ data_inner = <<>>
    /\ c_element = None
    /\ ws_err = "none"

AtEnd == ws_next > Len(ws_xml)

Cur == ws_xml[ws_next]

WsFail(pc, e) ==
    /\ ws_pc' = pc
    /\ ws_err' = e
    /\ UNCHANGED <<exceptWs, ws_xml, strings, ws_next, wsData, c_element>>

WsSkipEvent ==
    /\ ws_next' = ws_next + 1
    /\ UNCHANGED <<exceptWs, ws_xml, strings, ws_pc, wsData, c_element, ws_err>>

\* lines 172, 226, 231: the reader reports an error
WsXmlError ==
    /\ ws_pc \in {"outer", "sheet", "cell"}
    /\ ~AtEnd /\ Cur.ev = "Err"
    /\ WsFail("err", "Xml")

\* lines 170, 194-195: the events are exhausted
WsOuterEof ==
    /\ ws_pc = "outer"
    /\ AtEnd
    /\ ws_pc' = "done"
    /\ UNCHANGED <<exceptWs, ws_xml, strings, ws_next, wsData, c_element, ws_err>>

\* lines 175-184: <dimension>; reserve_exact of a wrapped (negative) size fails
WsDimension ==
    /\ ws_pc = "outer"
    /\ ~AtEnd /\ Cur.ev = "Start" /\ Cur.name = "dimension"
    /\ IF ~Cur.attr.some THEN WsFail("err", "Expecting dimension")
       ELSE \E overflow_checks \in BOOLEAN :
            LET d == get_dimension(Cur.attr.val, overflow_checks) IN
            IF ~d.ok
            THEN WsFail(IF d.err = "panic" THEN "panic" ELSE "err", d.err)
            ELSE IF d.val[2][1] < 0 \/ d.val[2][2] < 0
            THEN WsFail("panic", "capacity overflow")
            ELSE /\ data_position' = d.val[1]
                 /\ data_size' = d.val[2]
                 /\ ws_next' = ws_next + 1
                 /\ UNCHANGED <<exceptWs, ws_xml, strings, ws_pc, data_inner,
                                c_element, ws_err>>

\* lines 185-187: <sheetData>
WsSheetDataStart ==
    /\ ws_pc = "outer"
    /\ ~AtEnd /\ Cur.ev = "Start" /\ Cur.name = "sheetData"
    /\ ws_pc' = "sheet"
    /\ ws_next' = ws_next + 1
    /\ UNCHANGED <<exceptWs, ws_xml, strings, wsData, c_element, ws_err>>

\* lines 188, 191: any other event
WsOuterSkip ==
    /\ ws_pc = "outer"
    /\ ~AtEnd /\ Cur.ev # "Err"
    /\ ~(Cur.ev = "Start" /\ Cur.name \in {"dimension", "sheetData"})
    /\ WsSkipEvent

\* lines 227-228: <c>
WsCellStart ==
    /\ ws_pc = "sheet"
    /\ ~AtEnd /\ Cur.ev = "Start" /\ Cur.name = "c"
    /\ c_element' = Cur.attr
    /\ ws_pc' = "cell"
    /\ ws_next' = ws_next + 1
    /\ UNCHANGED <<exceptWs, ws_xml, strings, wsData, ws_err>>

\* line 268: </sheetData>
WsSheetDataEnd ==
    /\ ws_pc = "sheet"
    /\ ~AtEnd /\ Cur = End("sheetData")
    /\ ws_pc' = "outer"
    /\ ws_next' = ws_next + 1
    /\ UNCHANGED <<exceptWs, ws_xml, strings, wsData, c_element, ws_err>>

\* lines 228, 269: any other event
WsSheetSkip ==
    /\ ws_pc = "sheet"
    /\ ~AtEnd /\ Cur.ev # "Err"
    /\ ~(Cur.ev = "Start" /\ Cur.name = "c")
    /\ Cur # End("sheetData")
    /\ WsSkipEvent

\* line 272
WsSheetEof ==
    /\ ws_pc = "sheet"
    /\ AtEnd
    /\ WsFail("err", "Could not find </sheetData>")

\* lines 232-255: the first element inside <c>
WsCellChild ==
    /\ ws_pc = "cell"
    /\ ~AtEnd /\ Cur.ev = "Start"
    /\ IF Cur.name # "v" THEN WsFail("err", "not v node")
       ELSE LET v == read_text(ws_xml, ws_next + 1, "v")
                value == CellValue(c_element, v.text.val, strings)
            IN  IF ~v.text.ok THEN WsFail("err", v.text.err)
                ELSE IF ~value.ok
                THEN WsFail(IF value.err = "panic" THEN "panic" ELSE "err", value.err)
                ELSE /\ data_inner' = Append(data_inner, value.val)
                     /\ ws_next' = v.next
                     /\ ws_pc' = "sheet"
                     /\ UNCHANGED <<exceptWs, ws_xml, strings, data_position,
                                    data_size, c_element, ws_err>>

\* lines 256-260: </c> with no <v>
WsCellEnd ==
    /\ ws_pc = "cell"
    /\ ~AtEnd /\ Cur = End("c")
    /\ data_inner' = Append(data_inner, DataTypeEmpty)
    /\ ws_next' = ws_next + 1
    /\ ws_pc' = "sheet"
    /\ UNCHANGED <<exceptWs, ws_xml, strings, data_position, data_size,
                   c_element, ws_err>>

\* lines 256-261, 263: another end tag, or text
WsCellSkip ==
    /\ ws_pc = "cell"
    /\ ~AtEnd /\ Cur.ev \notin {"Err", "Start"}
    /\ Cur # End("c")
    /\ WsSkipEvent

\* line 262
WsCellEof ==
    /\ ws_pc = "cell"
    /\ AtEnd
    /\ WsFail("err", "End of xml")

-----------------------------------------------------------------------------
(* from_worksheet on bounded worksheets *)

MaxCells == 2

CellKinds == {"int", "float", "shared", "empty", "spaced", "bad", "formula"}

\* <c><v>1</v></c>, <c><v>1.5</v></c>, <c t="s"><v>0</v></c>, <c></c>,
\* <c> </c>, <c><v>x</v></c>, <c><f>1</f></c>
CellEvents(kind) ==
    LET valued(t, v) == <<Start("c", t), Start("v", None), Text(v), End("v"), End("c")>>
    IN  CASE kind = "int" -> valued(None, <<49>>)
          [] kind = "float" -> valued(None, <<49, 46, 53>>)
          [] kind = "shared" -> valued(Some(<<115>>), <<48>>)
          [] kind = "empty" -> <<Start("c", None), End("c")>>
          [] kind = "spaced" -> <<Start("c", None), Text(<<32>>), End("c")>>
          [] kind = "bad" -> valued(None, <<120>>)
          [] kind = "formula" ->
                <<Start("c", None), Start("f", None), Text(<<49>>), End("f"), End("c")>>

RECURSIVE Flatten(_)
Flatten(ss) == IF ss = <<>> THEN <<>> ELSE Head(ss) \o Flatten(Tail(ss))

\* the cells in one <row>, or each in a <row> of its own
RowEvents(kinds, one_row) ==
    IF one_row
    THEN <<Start("row", None)>> \o Flatten([i \in 1..Len(kinds) |-> CellEvents(kinds[i])])
            \o <<End("row")>>
    ELSE Flatten([i \in 1..Len(kinds) |->
            <<Start("row", None)>> \o CellEvents(kinds[i]) \o <<End("row")>>])

Endings == {"complete", "no_end", "error", "cut"}

SheetDataEvents(kinds, one_row, ending) ==
    <<Start("sheetData", None)>> \o RowEvents(kinds, one_row)
       \o CASE ending = "complete" -> <<End("sheetData")>>
            [] ending = "no_end" -> <<>>
            [] ending = "error" -> <<XmlError>>
            [] ending = "cut" -> <<Start("c", None)>>

\* ref="A1", "A1:B1", "A1:B2", "B2:A1", "A2:A1", "A"; no ref attribute
DimensionAttrs ==
    {Some(A1(1, 1, FALSE)),
     Some(A1(1, 1, FALSE) \o <<Colon>> \o A1(1, 2, FALSE)),
     Some(A1(1, 1, FALSE) \o <<Colon>> \o A1(2, 2, FALSE)),
     Some(A1(2, 2, FALSE) \o <<Colon>> \o A1(1, 1, FALSE)),
     Some(A1(2, 1, FALSE) \o <<Colon>> \o A1(1, 1, FALSE)),
     Some(<<65>>),
     None}

DimensionEvents(attr) == <<Start("dimension", attr), End("dimension")>>

\* <dimension> before <sheetData>, after it, or absent
Worksheets ==
    LET bodies == {SheetDataEvents(k, o, e) :
                      k \in SeqsUpTo(CellKinds, MaxCells), o \in BOOLEAN, e \in Endings}
    IN  {<<Start("worksheet", None)>> \o DimensionEvents(a) \o b : a \in DimensionAttrs, b \in bodies}
        \cup {<<Start("worksheet", None)>> \o b
                 \o DimensionEvents(Some(A1(1, 1, FALSE) \o <<Colon>> \o A1(2, 2, FALSE)))
                 \o <<End("worksheet")>> : b \in bodies}
        \cup {<<Start("worksheet", None)>> \o b : b \in bodies}

WsInit ==
    /\ ws_xml \in Worksheets
    /\ strings \in {<<>>, <<<<97, 98>>>>}
    /\ ws_next = 1
    /\ ws_pc = "outer"
    /\ data_position = <<0, 0>>
    /\ data_size = <<0, 0>>
    /\ data_inner = <<>>
    /\ c_element = None
    /\ ws_err = "none"

-----------------------------------------------------------------------------
(* The reference block of the dir stream: vba.rs VbaProject::read_references *)

\* a reader: the bytes left, the error met ("none": no error so far), and the
\* last bytes (buf) or number (num) read; a read after an error does nothing,
\* as try! returns at the first error
Reader(s) == [s |-> s, err |-> "none", buf |-> <<>>, num |-> 0]

\* stream.read_exact(&mut buf[..len]) with buf: [u8; 512]; the slice panics
\* when len is over 512 (a len of 2^31 or more is written as a negative number)
read_exact(st, len) ==
    IF st.err # "none" THEN st
    ELSE IF len < 0 \/ len > 512 THEN [st EXCEPT !.err = "panic"]
    ELSE IF Len(st.s) < len THEN [st EXCEPT !.err = "UnexpectedEof"]
    ELSE [st EXCEPT !.s = Drop(st.s, len), !.buf = Take(st.s, len)]

\* stream.read_u16::<LittleEndian>()
read_u16(st) ==
    IF st.err # "none" THEN st
    ELSE IF Len(st.s) < 2 THEN [st EXCEPT !.err = "UnexpectedEof"]
    ELSE [st EXCEPT !.s = Drop(st.s, 2), !.num = ReadU16(st.s)]

\* stream.read_u32::<LittleEndian>()
read_u32(st) ==
    IF st.err # "none" THEN st
    ELSE IF Len(st.s) < 4 THEN [st EXCEPT !.err = "UnexpectedEof"]
    ELSE [st EXCEPT !.s = Drop(st.s, 4),
                    !.num = st.s[1] + 256 * st.s[2] + 65536 * st.s[3]
                            + 16777216 * (IF st.s[4] >= 128 THEN st.s[4] - 256
                                          ELSE st.s[4])]

\* let len = read_u32() as usize; read_exact(&mut buf[..len])
read_sized(st) == read_exact(read_u32(st), read_u32(st).num)

\* the number of continuation bytes a UTF-8 lead byte asks for (0: ASCII), -1
\* for a continuation byte, -2 for a byte no UTF-8 text contains
Utf8Class(c) ==
    IF c < 128 THEN 0
    ELSE IF c <= 191 THEN -1
    ELSE IF c >= 194 /\ c <= 223 THEN 1
    ELSE IF c >= 224 /\ c <= 239 THEN 2
    ELSE IF c >= 240 /\ c <= 244 THEN 3
    ELSE -2

\* String::from_utf8 / str::from_utf8 accept the bytes: every lead byte has its
\* continuation bytes and every continuation byte its lead (over-long forms
\* and surrogates, which they reject, are not told apart here)
IsUtf8(b) ==
    LET follows(i, j) ==
            /\ Utf8Class(b[i]) >= j - i
            /\ \A k \in (i + 1)..j : Utf8Class(b[k]) = -1
    IN  \A i \in 1..Len(b) :
           /\ Utf8Class(b[i]) # -2
           /\ Utf8Class(b[i]) > 0 =>
                 i + Utf8Class(b[i]) <= Len(b) /\ follows(i, i + Utf8Class(b[i]))
           /\ Utf8Class(b[i]) = -1 =>
                 \E l \in 1..(i - 1) : i - l <= 3 /\ follows(l, i)

from_utf8(st) ==
    IF st.err = "none" /\ ~IsUtf8(st.buf) THEN [st EXCEPT !.err = "Utf8"] ELSE st

\* lines 230-234
NoReference == [name |-> <<>>, description |-> <<>>, path |-> <<47>>]

CommitsAlways(ref) == TRUE

\* lines 240, 244: !reference.name.is_empty()
Commits(ref) == ref.name # <<>>

Commit(refs, ref) == IF Commits(ref) THEN Append(refs, ref) ELSE refs

\* index of the last '#' of s, 0 when there is none
LastHash(s) ==
    IF \E i \in 1..Len(s) : s[i] = 35
    THEN CHOOSE i \in 1..Len(s) : s[i] = 35 /\ \A j \in (i + 1)..Len(s) : s[j] # 35
    ELSE 0

\* lines 294-298: registered_libid.split('#').rev(): the last part is the
\* description, the part before it (when there is one) the path
Registered(ref, libid) ==
    LET h == LastHash(libid)
        before == Take(libid, h - 1)
    IN  IF h = 0 THEN [ref EXCEPT !.description = libid]
        ELSE [ref EXCEPT !.description = Drop(libid, h),
                         !.path = Drop(before, LastHash(before))]

\* lines 308-313: "*\C" is stripped from the absolute libid
Project(ref, absolute) ==
    IF Len(absolute) >= 3 /\ Take(absolute, 3) = <<42, 92, 67>>
    THEN [ref EXCEPT !.path = Drop(absolute, 3)]
    ELSE [ref EXCEPT !.path = absolute]

RefIdle ==
    /\ ref_given = [records |-> <<>>, ending |-> "idle"]
    /\ stream = <<>>
    /\ references = <<>>
    /\ reference = NoReference
    /\ ref_pc = "idle"
    /\ ref_err = "none"

\* line 237: let check = stream.read_u16()
check == read_u16(Reader(stream))

\* the end of a loop iteration whose reads left the reader in state st
RefStep(st, refs, ref) ==
    IF st.err # "none"
    THEN /\ ref_pc' = IF st.err = "panic" THEN "panic" ELSE "err"
         /\ ref_err' = st.err
         /\ UNCHANGED <<exceptRef, ref_given, stream, references, reference>>
    ELSE /\ stream' = st.s
         /\ references' = refs
         /\ reference' = ref
         /\ UNCHANGED <<exceptRef, ref_given, ref_pc, ref_err>>

\* lines 237-238: the check id cannot be read
RefCheckEof ==
    /\ ref_pc = "loop"
    /\ check.err # "none"
    /\ RefStep(check, references, reference)

\* lines 239-242 and 323: the terminator
RefTerminator ==
    /\ ref_pc = "loop"
    /\ check.err = "none" /\ check.num = 15
    /\ references' = Commit(references, reference)
    /\ stream' = check.s
    /\ ref_pc' = "done"
    /\ UNCHANGED <<exceptRef, ref_given, reference, ref_err>>

\* lines 243-260: REFERENCENAME
RefName ==
    /\ ref_pc = "loop"
    /\ check.err = "none" /\ check.num = 22
    /\ LET name == from_utf8(read_sized(check))
           unicode == read_sized(read_exact(name, 2))
       IN  RefStep(unicode, Commit(references, reference),
                   [name |-> name.buf, description |-> name.buf, path |-> <<47>>])

\* lines 261-266: REFERENCEORIGINAL
RefOriginal ==
    /\ ref_pc = "loop"
    /\ check.err = "none" /\ check.num = 51
    /\ RefStep(read_sized(check), references, reference)

\* lines 267-287: REFERENCECONTROL, with or without a name record inside
RefControl ==
    /\ ref_pc = "loop"
    /\ check.err = "none" /\ check.num = 47
    /\ LET twiddled == read_exact(read_sized(read_exact(check, 4)), 6)
           id == read_u16(twiddled)
           extended == IF id.err = "none" /\ id.num = 22
                       THEN read_exact(read_sized(read_exact(read_sized(id), 2)), 2)
                       ELSE id
       IN  RefStep(read_exact(read_sized(read_exact(extended, 4)), 26),
                   references, reference)

\* lines 288-301: REFERENCEREGISTERED
RefRegistered ==
    /\ ref_pc = "loop"
    /\ check.err = "none" /\ check.num = 13
    /\ LET libid == from_utf8(read_sized(read_exact(check, 4)))
       IN  RefStep(read_exact(libid, 6), references, Registered(reference, libid.buf))

\* lines 302-318: REFERENCEPROJECT
RefProject ==
    /\ ref_pc = "loop"
    /\ check.err = "none" /\ check.num = 14
    /\ LET absolute == from_utf8(read_sized(read_exact(check, 4)))
       IN  RefStep(read_exact(read_sized(absolute), 6), references,
                   Project(reference, absolute.buf))

\* line 319: any other check id
RefUnknown ==
    /\ ref_pc = "loop"
    /\ check.err = "none" /\ check.num \notin {15, 22, 51, 47, 13, 14}
    /\ ref_pc' = "err"
    /\ ref_err' = "invalid of unknown check Id"
    /\ UNCHANGED <<exceptRef, ref_given, stream, references, reference>>

-----------------------------------------------------------------------------
(* read_references on bounded reference blocks *)

MaxRecords == 3

U16(n) == <<n % 256, n \div 256>>

U32(n) == <<n % 256, (n \div 256) % 256, (n \div 65536) % 256, n \div 16777216>>

Sized(bytes) == U32(Len(bytes)) \o bytes

\* the UTF-16LE spelling of an ASCII text
Unicode(t) == [i \in 1..(2 * Len(t)) |-> IF i % 2 = 1 THEN t[(i + 1) \div 2] ELSE 0]

Zeros(n) == [i \in 1..n |-> 0]

\* "", "A", "Bc", "é", a name of 513 bytes, a byte that is not UTF-8
Names ==
    {<<>>, <<65>>, <<66, 99>>, <<195, 169>>, [i \in 1..513 |-> 65], <<255>>}

\* "*\CZ", "x#p#d", "q"
LibId == <<42, 92, 67, 90>>

RegisteredLibId == <<120, 35, 112, 35, 100>>

RecordsGiven ==
    {[kind |-> "name", name |-> n] : n \in Names}
    \cup {[kind |-> k, name |-> <<>>] : k \in {"original", "control", "registered", "project"}}
    \cup {[kind |-> "control", name |-> <<78>>]}

\* MS-OVBA 2.3.4.2.2: the bytes of a record
NameBytes(name) ==
    U16(22) \o Sized(name) \o U16(62) \o Sized(Unicode(name))

RecordBytes(rec) ==
    CASE rec.kind = "name" -> NameBytes(rec.name)
      [] rec.kind = "original" -> U16(51) \o Sized(LibId)
      [] rec.kind = "control" ->
            U16(47) \o U32(0) \o Sized(LibId) \o Zeros(6)
               \o (IF rec.name = <<>> THEN <<>> ELSE NameBytes(rec.name))
               \o U16(48) \o U32(0) \o Sized(LibId) \o Zeros(26)
      [] rec.kind = "registered" ->
            U16(13) \o U32(0) \o Sized(RegisteredLibId) \o Zeros(6)
      [] rec.kind = "project" ->
            U16(14) \o U32(0) \o Sized(LibId) \o Sized(<<113>>) \o Zeros(6)

\* the terminator, the end of the stream, an unknown check id
RefEndings == {"terminator", "eof", "unknown"}

BlockBytes(given) ==
    Flatten([i \in 1..Len(given.records) |-> RecordBytes(given.records[i])])
       \o CASE given.ending = "terminator" -> U16(15)
            [] given.ending = "eof" -> <<>>
            [] given.ending = "unknown" -> U16(1)

RefInit ==
    /\ ref_given \in [records : SeqsUpTo(RecordsGiven, MaxRecords), ending : RefEndings]
    /\ stream = BlockBytes(ref_given)
    /\ references = <<>>
    /\ reference = NoReference
    /\ ref_pc = "loop"
    /\ ref_err = "none"

-----------------------------------------------------------------------------
(* The module block of the dir stream: vba.rs VbaProject::read_modules *)

\* Module { ..Default::default() }
NoModule == [name |-> <<>>, stream_name |-> <<>>, text_offset |-> 0]

FixedLengthFour(section_id) == 4

\* lines 370-384: the bytes skipped after a section id with a fixed body
FixedLength(section_id) ==
    IF section_id = 30 THEN 8
    ELSE IF section_id = 44 THEN 6
    ELSE 4

ModIdle ==
    /\ mod_given = [count |-> 0, mods |-> <<>>]
    /\ mod_stream = <<>>
    /\ modules = <<>>
    /\ module = NoModule
    /\ mod_left = 0
    /\ mod_pc = "idle"
    /\ mod_err = "none"

\* the end of a step whose reads left the reader in state st
ModStep(st, pc, mods, m, left) ==
    IF st.err # "none"
    THEN /\ mod_pc' = IF st.err = "panic" THEN "panic" ELSE "err"
         /\ mod_err' = st.err
         /\ UNCHANGED <<exceptMod, mod_given, mod_stream, modules, module, mod_left>>
    ELSE /\ mod_stream' = st.s
         /\ mod_pc' = pc
         /\ modules' = mods
         /\ module' = m
         /\ mod_left' = left
         /\ UNCHANGED <<exceptMod, mod_given, mod_err>>

\* lines 329-334: the preamble
ModPreamble ==
    /\ mod_pc = "preamble"
    /\ LET module_len == read_u16(read_exact(Reader(mod_stream), 4))
       IN  ModStep(read_exact(module_len, 8), "module", <<>>, NoModule, module_len.num)

\* lines 336, 397: the for loop is over
ModReturn ==
    /\ mod_pc = "module"
    /\ mod_left = 0
    /\ mod_pc' = "done"
    /\ UNCHANGED <<exceptMod, mod_given, mod_stream, modules, module, mod_left, mod_err>>

\* lines 337-342: the name of a module
ModName ==
    /\ mod_pc = "module"
    /\ mod_left > 0
    /\ LET name == from_utf8(read_sized(read_exact(Reader(mod_stream), 2)))
       IN  ModStep(name, "section", modules, [NoModule EXCEPT !.name = name.buf],
                   mod_left)

\* line 345: let section_id = stream.read_u16()
section_id == read_u16(Reader(mod_stream))

\* line 345: the section id cannot be read
ModSectionEof ==
    /\ mod_pc = "section"
    /\ section_id.err # "none"
    /\ ModStep(section_id, "section", modules, module, mod_left)

\* lines 347-350: 0x0047, the unicode name
ModUnicodeName ==
    /\ mod_pc = "section"
    /\ section_id.err = "none" /\ section_id.num = 71
    /\ ModStep(read_sized(section_id), "section", modules, module, mod_left)

\* lines 351-358: 0x001A, the stream name
ModStreamName ==
    /\ mod_pc = "section"
    /\ section_id.err = "none" /\ section_id.num = 26
    /\ LET stream_name == from_utf8(read_sized(section_id))
       IN  ModStep(read_sized(read_exact(stream_name, 2)), "section", modules,
                   [module EXCEPT !.stream_name = stream_name.buf], mod_left)

\* lines 359-365: 0x001C, the doc string
ModDocString ==
    /\ mod_pc = "section"
    /\ section_id.err = "none" /\ section_id.num = 28
    /\ ModStep(read_sized(read_exact(read_sized(section_id), 2)), "section",
               modules, module, mod_left)

\* lines 366-369: 0x0031, the text offset
ModOffset ==
    /\ mod_pc = "section"
    /\ section_id.err = "none" /\ section_id.num = 49
    /\ LET offset == read_u32(read_exact(section_id, 4))
       IN  ModStep(offset, "section", modules,
                   [module EXCEPT !.text_offset = offset.num], mod_left)

\* lines 370-384: 0x001E, 0x002C, 0x0021, 0x0022, 0x0025, 0x0028
ModFixed ==
    /\ mod_pc = "section"
    /\ section_id.err = "none" /\ section_id.num \in {30, 44, 33, 34, 37, 40}
    /\ ModStep(read_exact(section_id, FixedLength(section_id.num)), "section",
               modules, module, mod_left)

\* lines 385-388 and 394: 0x002B ends the module
ModEnd ==
    /\ mod_pc = "section"
    /\ section_id.err = "none" /\ section_id.num = 43
    /\ ModStep(read_exact(section_id, 4), "module", Append(modules, module),
               module, mod_left - 1)

\* lines 389-390: any other section id
ModUnknown ==
    /\ mod_pc = "section"
    /\ section_id.err = "none"
    /\ section_id.num \notin {71, 26, 28, 49, 30, 44, 33, 34, 37, 40, 43}
    /\ mod_pc' = "err"
    /\ mod_err' = "unknown or invalid module section id"
    /\ UNCHANGED <<exceptMod, mod_given, mod_stream, modules, module, mod_left>>

-----------------------------------------------------------------------------
(* read_modules on bounded module blocks *)

MaxModules == 2

\* a section given as [id, text, offset]
Section(id, text, offset) == [id |-> id, text |-> text, offset |-> offset]

SectionBytes(sec) ==
    U16(sec.id) \o
    CASE sec.id = 71 -> Sized(Unicode(sec.text))
      [] sec.id \in {26, 28} -> Sized(sec.text) \o U16(50) \o Sized(Unicode(sec.text))
      [] sec.id = 49 -> U32(4) \o U32(sec.offset)
      [] sec.id = 30 -> U32(4) \o U32(0)
      [] sec.id = 44 -> U32(2) \o U16(65535)
      [] sec.id \in {33, 34, 37, 40, 43} -> U32(0)
      [] OTHER -> <<>>

\* "S", "T", offsets 5 and 7; 0x0099 is no section id; a module cut short
SectionLists ==
    {<<Section(26, <<83>>, 0), Section(49, <<>>, 5), Section(43, <<>>, 0)>>,
     <<Section(71, <<77>>, 0), Section(26, <<84>>, 0), Section(28, <<100>>, 0),
       Section(49, <<>>, 7), Section(30, <<>>, 0), Section(44, <<>>, 0),
       Section(33, <<>>, 0), Section(34, <<>>, 0), Section(37, <<>>, 0),
       Section(40, <<>>, 0), Section(43, <<>>, 0)>>,
     <<Section(49, <<>>, 7), Section(43, <<>>, 0)>>,
     <<Section(26, <<83>>, 0), Section(26, <<84>>, 0), Section(49, <<>>, 5),
       Section(49, <<>>, 7), Section(43, <<>>, 0)>>,
     <<Section(26, <<83>>, 0), Section(153, <<>>, 0), Section(43, <<>>, 0)>>,
     <<Section(26, <<83>>, 0)>>,
     <<Section(26, <<255>>, 0), Section(43, <<>>, 0)>>}

\* "M", "Nn", a name of 513 bytes
ModulesGiven ==
    [name : {<<77>>, <<78, 110>>}, sections : SectionLists]
    \cup {[name |-> [i \in 1..513 |-> 77], sections |-> <<Section(43, <<>>, 0)>>]}

ModuleBytes(m) ==
    U16(25) \o Sized(m.name)
       \o Flatten([i \in 1..Len(m.sections) |-> SectionBytes(m.sections[i])])

ModuleBlockBytes(given) ==
    U16(15) \o U16(2) \o U16(given.count) \o U16(19) \o U32(2) \o U16(65535)
       \o Flatten([i \in 1..Len(given.mods) |-> ModuleBytes(given.mods[i])])
       \o U16(16) \o U32(0)

ModInit ==
    /\ mod_given \in [count : 0..(MaxModules + 1), mods : SeqsUpTo(ModulesGiven, MaxModules)]
    /\ mod_stream = ModuleBlockBytes(mod_given)
    /\ modules = <<>>
    /\ module = NoModule
    /\ mod_left = 0
    /\ mod_pc = "preamble"
    /\ mod_err = "none"

-----------------------------------------------------------------------------
(* The PROJECT stream: vba.rs VbaProject::get_code_modules *)

\* lines 19-21
CLASS_EXTENSION == "cls"

MODULE_EXTENSION == "bas"

FORM_EXTENSION == "frm"

\* BufRead::read_line on a byte slice: the bytes up to and including the first
\* '\n' (10), or all of them when there is none
LineLength(s) ==
    IF \E i \in 1..Len(s) : s[i] = 10
    THEN CHOOSE i \in 1..Len(s) : s[i] = 10 /\ \A j \in 1..(i - 1) : s[j] # 10
    ELSE Len(s)

\* char::is_whitespace, for ASCII: tab, LF, VT, FF, CR, space
IsWhitespace(c) == c \in {9, 10, 11, 12, 13, 32}

\* str::trim
Trim(t) ==
    LET kept == {i \in 1..Len(t) : ~IsWhitespace(t[i])} IN
    IF kept = {} THEN <<>>
    ELSE SubSeq(t, CHOOSE i \in kept : \A j \in kept : i <= j,
                   CHOOSE i \in kept : \A j \in kept : i >= j)

\* line.find('='), 0 for None ('=' is 61)
FindEquals(t) ==
    IF \E i \in 1..Len(t) : t[i] = 61
    THEN CHOOSE i \in 1..Len(t) : t[i] = 61 /\ \A j \in 1..(i - 1) : t[j] # 61
    ELSE 0

ExtensionModuleOnly(key) ==
    IF key = <<77, 111, 100, 117, 108, 101>> THEN MODULE_EXTENSION ELSE "none"

\* lines 136-141: "Document" | "Class", "Module", "BaseClass"; "none": continue
Extension(key) ==
    IF key = <<68, 111, 99, 117, 109, 101, 110, 116>> \/ key = <<67, 108, 97, 115, 115>>
    THEN CLASS_EXTENSION
    ELSE IF key = <<77, 111, 100, 117, 108, 101>> THEN MODULE_EXTENSION
    ELSE IF key = <<66, 97, 115, 101, 67, 108, 97, 115, 115>> THEN FORM_EXTENSION
    ELSE "none"

\* HashMap::insert
Insert(map, k, v) == {e \in map : e[1] # k} \cup {<<k, v>>}

\* lines 131-144: the map after a line
AfterLine(map, raw) ==
    LET l == Trim(raw)
        pos == FindEquals(l)
    IN  IF l = <<>> \/ l[1] = 91 THEN map
        ELSE IF pos = 0 THEN map
        ELSE IF Extension(Take(l, pos - 1)) = "none" THEN map
        ELSE Insert(map, Drop(l, pos), Extension(Take(l, pos - 1)))

PjIdle ==
    /\ pj_given = [lines |-> <<>>, eol |-> <<>>, present |-> FALSE]
    /\ pj_project = None
    /\ pj_stream = <<>>
    /\ line = <<>>
    /\ lines_read = 0
    /\ code_modules = {}
    /\ pj_pc = "idle"
    /\ pj_err = "none"

\* lines 122-127: get_stream("PROJECT")
PjGetStream ==
    /\ pj_pc = "start"
    /\ IF pj_project.some
       THEN /\ pj_stream' = pj_project.val
            /\ pj_pc' = "loop"
            /\ UNCHANGED pj_err
       ELSE /\ pj_pc' = "err"
            /\ pj_err' = "cannot find 'PROJECT' stream"
            /\ UNCHANGED pj_stream
    /\ UNCHANGED <<exceptPj, pj_given, pj_project, line, lines_read, code_modules>>

\* lines 130, 146: read_line returns 0
PjEndOfStream ==
    /\ pj_pc = "loop"
    /\ pj_stream = <<>>
    /\ pj_pc' = "done"
    /\ UNCHANGED <<exceptPj, pj_given, pj_project, pj_stream, line, lines_read,
                   code_modules, pj_err>>

\* line 130: read_line fails on bytes that are not UTF-8
PjInvalidData ==
    /\ pj_pc = "loop"
    /\ pj_stream # <<>>
    /\ ~IsUtf8(Take(pj_stream, LineLength(pj_stream)))
    /\ pj_pc' = "err"
    /\ pj_err' = "Io"
    /\ UNCHANGED <<exceptPj, pj_given, pj_project, pj_stream, line, lines_read,
                   code_modules>>

\* lines 129-144: one line
PjLine ==
    /\ pj_pc = "loop"
    /\ pj_stream # <<>>
    /\ IsUtf8(Take(pj_stream, LineLength(pj_stream)))
    /\ line' = Take(pj_stream, LineLength(pj_stream))
    /\ pj_stream' = Drop(pj_stream, LineLength(pj_stream))
    /\ lines_read' = lines_read + 1
    /\ code_modules' = AfterLine(code_modules, Take(pj_stream, LineLength(pj_stream)))
    /\ UNCHANGED <<exceptPj, pj_given, pj_project, pj_pc, pj_err>>

-----------------------------------------------------------------------------
(* get_code_modules on bounded PROJECT streams *)

MaxLines == 3

\* 'Module=A'
L_MODULE_A == <<77, 111, 100, 117, 108, 101, 61, 65>>

\* 'Class=A'
L_CLASS_A == <<67, 108, 97, 115, 115, 61, 65>>

\* 'Document=B'
L_DOCUMENT_B == <<68, 111, 99, 117, 109, 101, 110, 116, 61, 66>>

\* 'BaseClass=C'
L_BASECLASS_C == <<66, 97, 115, 101, 67, 108, 97, 115, 115, 61, 67>>

\* '[Host Extender Info]'
L_HOST == <<91, 72, 111, 115, 116, 32, 69, 120, 116, 101, 110, 100, 101, 114, 32, 73, 110, 102, 111, 93>>

\* 'ID'
L_ID == <<73, 68>>

\* 'Name=A'
L_NAME_X == <<78, 97, 109, 101, 61, 65>>

\* '  Module=D\t'
L_PADDED == <<32, 32, 77, 111, 100, 117, 108, 101, 61, 68, 9>>

\* 'Module =A'
L_SPACED_KEY == <<77, 111, 100, 117, 108, 101, 32, 61, 65>>

\* 'Class=A=B'
L_TWO_EQUALS == <<67, 108, 97, 115, 115, 61, 65, 61, 66>>

\* 'module=A'
L_LOWER == <<109, 111, 100, 117, 108, 101, 61, 65>>

\* 'Name=ÿ'
L_NOT_UTF8 == <<78, 97, 109, 101, 61, 255>>

ProjectLines ==
    {L_MODULE_A, L_CLASS_A, L_DOCUMENT_B, L_BASECLASS_C, L_HOST, <<>>,
     L_ID, L_NAME_X, L_PADDED, L_SPACED_KEY, L_TWO_EQUALS, L_LOWER, L_NOT_UTF8}

\* the lines joined by eol ("\r\n" or "\n"); the last line has no eol
RECURSIVE Joined(_, _)
Joined(ls, eol) ==
    IF ls = <<>> THEN <<>>
    ELSE IF Len(ls) = 1 THEN ls[1]
    ELSE ls[1] \o eol \o Joined(Tail(ls), eol)

PjInit ==
    /\ pj_given \in [lines : SeqsUpTo(ProjectLines, MaxLines),
                     eol : {<<13, 10>>, <<10>>}, present : BOOLEAN]
    /\ pj_project = IF pj_given.present
                    THEN Some(Joined(pj_given.lines, pj_given.eol))
                    ELSE None
    /\ pj_stream = <<>>
    /\ line = <<>>
    /\ lines_read = 0
    /\ code_modules = {}
    /\ pj_pc = "start"
    /\ pj_err = "none"

-----------------------------------------------------------------------------
(* Loading a container: vba.rs VbaProject::new, Header::from_reader, to_u32_vec *)

\* line 16
OLE_SIGNATURE == <<208, 207, 17, 224, 161, 177, 26, 225>>

\* lines 433, 461: sect_fat: [u32; 109]
HeaderFatLen == 109

\* the size of what Header::from_reader reads: 8 + 16 + 6 * 2 + 10 * 4 + 109 * 4
HeaderSize == 76 + 4 * HeaderFatLen

\* read_u32::<LittleEndian>() of the 4 bytes after offset off
U32At(bytes, off) == read_u32(Reader(SubSeq(bytes, off + 1, off + 4))).num

\* Header::from_reader, the fields VbaProject::new uses up to the FAT
Header_from_reader(bytes) ==
    IF Len(bytes) < HeaderSize THEN Err("Io")
    ELSE Ok([ab_sig |-> Take(bytes, 8),
             sector_shift |-> ReadU16(SubSeq(bytes, 31, 32)),
             sect_dif_start |-> U32At(bytes, 68),
             sect_fat |-> [i \in 1..HeaderFatLen |-> U32At(bytes, 72 + 4 * i)]])

\* to_u32_vec past its assert: buffer.len() / 4 little-endian ids
to_u32_vec(b) == [i \in 1..(Len(b) \div 4) |-> U32At(b, 4 * (i - 1))]

PopNothing(list) == [rest |-> list, last |-> list[Len(list)]]

\* line 59: fat_sectors.pop().unwrap()
Pop(list) == [rest |-> Take(list, Len(list) - 1), last |-> list[Len(list)]]

\* fat_sectors.into_iter().filter(|id| *id != FREESECT): the position of the
\* next id the loop takes after position i, 0 when there is none
NextListed(list, i) ==
    IF \E j \in (i + 1)..Len(list) : list[j] # FREESECT
    THEN CHOOSE j \in (i + 1)..Len(list) :
            list[j] # FREESECT /\ \A k \in (i + 1)..(j - 1) : list[k] = FREESECT
    ELSE 0

NumImageSectors == 2

\* the walk is followed for one sector more than the image can hold
DifStepCap == NumImageSectors + 1

NoSector == [data |-> <<>>, size |-> 0, fats |-> <<>>]

NewIdle ==
    /\ new_given = [sig_ok |-> TRUE, sector_shift |-> 0, extra |-> 0,
                    truncated |-> FALSE, first_fat |-> FREESECT,
                    last_fat |-> FREESECT, dif_start |-> ENDOFCHAIN,
                    sectors |-> <<>>]
    /\ image = <<>>
    /\ sector = NoSector
    /\ fat_sectors = <<>>
    /\ dif_sector_id = ENDOFCHAIN
    /\ dif_steps = 0
    /\ fat_index = 0
    /\ fat = <<>>
    /\ new_pc = "idle"
    /\ new_err = "none"

NewStop(pc, err) ==
    /\ new_pc' = pc
    /\ new_err' = err
    /\ UNCHANGED <<sector, fat_sectors, dif_sector_id, dif_steps, fat_index, fat>>

\* lines 36-56: the header, the signature and size checks, Sector::new.
\* 2u64.pow(sector_shift) overflows from 64 on: a panic where overflow is
\* checked, and 0 where it wraps, so that the remainder by it panics.
NewHeader ==
    /\ new_pc = "start"
    /\ LET h == Header_from_reader(image) IN
       IF ~h.ok THEN NewStop("err", h.err)
       ELSE LET header == h.val
                sector_size == Pow(2, header.sector_shift)
            IN  IF header.ab_sig # OLE_SIGNATURE
                THEN NewStop("err", "invalid OLE signature (not an office document?)")
                ELSE IF header.sector_shift >= 64
                THEN NewStop("panic", "arithmetic overflow")
                ELSE IF (Len(image) - 512) % sector_size # 0
                THEN NewStop("err", "last sector has invalid size")
                ELSE /\ sector' = [data |-> Drop(image, 512), size |-> sector_size,
                                   fats |-> <<>>]
                     /\ fat_sectors' = header.sect_fat
                     /\ dif_sector_id' = header.sect_dif_start
                     /\ new_pc' = "dif"
                     /\ UNCHANGED <<dif_steps, fat_index, fat, new_err>>
    /\ UNCHANGED <<exceptNew, new_given, image>>

\* lines 57-60: one DIF sector
NewDif ==
    /\ new_pc = "dif"
    /\ dif_sector_id # FREESECT /\ dif_sector_id # ENDOFCHAIN
    /\ dif_steps < DifStepCap
    /\ IF ~InRange(sector, dif_sector_id)
       THEN NewStop("panic", "index out of range")
       ELSE IF sector.size % 4 # 0
       THEN NewStop("panic", "assertion failed: buffer.len() % 4 == 0")
       ELSE LET extended == fat_sectors \o to_u32_vec(get(sector, dif_sector_id)) IN
            /\ dif_sector_id' = Pop(extended).last
            /\ fat_sectors' = Pop(extended).rest
            /\ dif_steps' = dif_steps + 1
            /\ UNCHANGED <<sector, fat_index, fat, new_pc, new_err>>
    /\ UNCHANGED <<exceptNew, new_given, image>>

\* line 57: the DIF pointer is FREESECT or ENDOFCHAIN
NewDifEnd ==
    /\ new_pc = "dif"
    /\ dif_sector_id = FREESECT \/ dif_sector_id = ENDOFCHAIN
    /\ new_pc' = "fat"
    /\ UNCHANGED <<exceptNew, new_given, image, sector, fat_sectors, dif_sector_id,
                   dif_steps, fat_index, fat, new_err>>

\* lines 65-67: the next listed sector that is not FREESECT
NewFat ==
    /\ new_pc = "fat"
    /\ NextListed(fat_sectors, fat_index) # 0
    /\ LET i == NextListed(fat_sectors, fat_index) IN
       IF ~InRange(sector, fat_sectors[i])
       THEN NewStop("panic", "index out of range")
       ELSE IF sector.size % 4 # 0
       THEN NewStop("panic", "assertion failed: buffer.len() % 4 == 0")
       ELSE /\ fat' = fat \o to_u32_vec(get(sector, fat_sectors[i]))
            /\ fat_index' = i
            /\ UNCHANGED <<sector, fat_sectors, dif_sector_id, dif_steps, new_pc,
                           new_err>>
    /\ UNCHANGED <<exceptNew, new_given, image>>

\* lines 65-70: no listed sector is left
NewFatEnd ==
    /\ new_pc = "fat"
    /\ NextListed(fat_sectors, fat_index) = 0
    /\ sector' = [sector EXCEPT !.fats = fat]
    /\ new_pc' = "done"
    /\ UNCHANGED <<exceptNew, new_given, image, fat_sectors, dif_sector_id,
                   dif_steps, fat_index, fat, new_err>>

-----------------------------------------------------------------------------
(* VbaProject::new on bounded images *)

\* the little-endian bytes of a 32-bit id
IdBytes(id) ==
    <<id % 256, (id \div 256) % 256, (id \div 65536) % 256, (id \div 16777216) % 256>>

ImageIds == 0..(NumImageSectors - 1)

\* a sector of 2^3 bytes as the two ids it holds: the id of a FAT sector and a
\* next pointer
ImageSectors ==
    [1..NumImageSectors ->
        ({NumImageSectors - 1, FREESECT}) \X (ImageIds \cup {ENDOFCHAIN})]

\* well-formed headers over every sector content, and every header deviation
\* over one sector content
ImagesGiven ==
    [sig_ok : {TRUE}, sector_shift : {3}, extra : {0},
     truncated : {FALSE},
     first_fat : {FREESECT, 0, NumImageSectors},
     last_fat : {FREESECT, NumImageSectors - 1},
     dif_start : {ENDOFCHAIN, FREESECT, 0, NumImageSectors - 1},
     sectors : ImageSectors]
    \cup
    [sig_ok : BOOLEAN, sector_shift : {1, 3, 64}, extra : {0, 1},
     truncated : BOOLEAN,
     first_fat : {FREESECT, 0},
     last_fat : {FREESECT},
     dif_start : {ENDOFCHAIN, 0},
     sectors : {[i \in 1..NumImageSectors |-> <<FREESECT, ENDOFCHAIN>>]}]

\* [MS-CFB] 2.2: the header of an image; the fields VbaProject::new does not
\* use before the FAT is loaded are zero
HeaderBytes(g) ==
    (IF g.sig_ok THEN OLE_SIGNATURE ELSE <<80, 75, 3, 4, 20, 0, 0, 0>>)
    \o Zeros(16) \o Zeros(6) \o U16(g.sector_shift) \o Zeros(36)
    \o IdBytes(g.dif_start) \o Zeros(4)
    \o IdBytes(g.first_fat)
    \o Flatten([i \in 1..(HeaderFatLen - 2) |-> IdBytes(FREESECT)])
    \o IdBytes(g.last_fat)

ImageBytes(g) ==
    LET whole == HeaderBytes(g)
                 \o Flatten([i \in 1..Len(g.sectors) |->
                                IdBytes(g.sectors[i][1]) \o IdBytes(g.sectors[i][2])])
                 \o Zeros(g.extra)
    IN  IF g.truncated THEN Take(whole, 500) ELSE whole

NewInit ==
    /\ new_given \in ImagesGiven
    /\ image = ImageBytes(new_given)
    /\ sector = NoSector
    /\ fat_sectors = <<>>
    /\ dif_sector_id = ENDOFCHAIN
    /\ dif_steps = 0
    /\ fat_index = 0
    /\ fat = <<>>
    /\ new_pc = "start"
    /\ new_err = "none"

-----------------------------------------------------------------------------
(* The workbook facade: lib.rs Excel::worksheet_range, read_shared_strings,
   read_sheets_names *)

MaxCalls == 2

\* the names the calls ask for; no part carries "Sheet3"
SheetNames == {"Sheet1", "Sheet2", "Sheet3"}

NoResult == [ok |-> FALSE, err |-> "no call"]

KeepsPartial(cache, partial) == partial

\* line 149: return Err(ExcelError::Xml(e)) before self.strings is assigned
OnXmlError(cache, partial) == cache

\* lines 104-121 for one part: the name it is entered under, None when it is
\* not a worksheet part or has no sheetPr codeName, an error when the
\* codeName is not UTF-8
CodeName(part) ==
    IF part.kind # "worksheet" THEN Ok(None)
    ELSE IF part.code_name = "none" THEN Ok(None)
    ELSE IF part.code_name = "not utf-8" THEN Err("Utf8")
    ELSE Ok(Some(part.code_name))

\* lines 101-124: the scan of the parts, in archive order
RECURSIVE ScanFrom(_, _, _)
ScanFrom(parts, i, sheets) ==
    IF i > Len(parts) THEN Ok(sheets)
    ELSE LET c == CodeName(parts[i]) IN
         IF ~c.ok THEN c
         ELSE IF ~c.val.some THEN ScanFrom(parts, i + 1, sheets)
         ELSE ScanFrom(parts, i + 1,
                       {e \in sheets : e[1] # c.val.val} \cup {<<c.val.val, i>>})

\* self.sheets.get(name)
SheetsGet(sheets, name) ==
    IF \E e \in sheets : e[1] = name
    THEN Some((CHOOSE e \in sheets : e[1] = name)[2])
    ELSE None

\* line 94: Range::from_worksheet on the part, with the table it is handed
from_worksheet(part, index, table) ==
    IF part.readable THEN Ok([part |-> index, strings |-> table]) ELSE Err("Xml")

FcIdle ==
    /\ fc_given = [shared |-> [kind |-> "absent", events |-> <<>>], parts |-> <<>>]
    /\ self_strings = <<>>
    /\ self_sheets = {}
    /\ local_strings = <<>>
    /\ xml_pos = 0
    /\ fc_name = "none"
    /\ fc_calls = 0
    /\ fc_result = NoResult
    /\ succeeded = FALSE
    /\ rereads = 0
    /\ rescans = 0
    /\ fc_pc = "off"

\* the call returns
FcReturn(result) ==
    /\ fc_result' = result
    /\ succeeded' = (succeeded \/ result.ok)
    /\ fc_pc' = "idle"

\* line 86: worksheet_range(name)
FcCall ==
    /\ fc_pc = "idle"
    /\ fc_calls < MaxCalls
    /\ \E name \in SheetNames : fc_name' = name
    /\ fc_calls' = fc_calls + 1
    /\ fc_pc' = "read_shared_strings"
    /\ UNCHANGED <<exceptFc, fc_given, self_strings, self_sheets, local_strings,
                   xml_pos, fc_result, succeeded, rereads, rescans>>

\* line 133: self.strings is not empty
FcStringsCached ==
    /\ fc_pc = "read_shared_strings"
    /\ self_strings # <<>>
    /\ fc_pc' = "read_sheets_names"
    /\ UNCHANGED <<exceptFc, fc_given, self_strings, self_sheets, local_strings,
                   xml_pos, fc_name, fc_calls, fc_result, succeeded, rereads,
                   rescans>>

\* lines 133-140, 153-154: self.strings is empty; by_name("xl/sharedStrings.xml")
FcStringsOpen ==
    /\ fc_pc = "read_shared_strings"
    /\ self_strings = <<>>
    /\ CASE fc_given.shared.kind = "absent" ->
                /\ fc_pc' = "read_sheets_names"
                /\ UNCHANGED <<local_strings, xml_pos, fc_result, succeeded, rereads>>
         [] fc_given.shared.kind = "unreadable" ->
                /\ FcReturn(Err("Zip"))
                /\ UNCHANGED <<local_strings, xml_pos, rereads>>
         [] OTHER ->
                /\ local_strings' = <<>>
                /\ xml_pos' = 0
                /\ rereads' = IF succeeded THEN rereads + 1 ELSE rereads
                /\ fc_pc' = "xml"
                /\ UNCHANGED <<fc_result, succeeded>>
    /\ UNCHANGED <<exceptFc, fc_given, self_strings, self_sheets, fc_name, fc_calls,
                   rescans>>

\* lines 141-150: one event of sharedStrings.xml
FcStringsEvent ==
    /\ fc_pc = "xml"
    /\ xml_pos < Len(fc_given.shared.events)
    /\ LET event == fc_given.shared.events[xml_pos + 1] IN
       CASE event.kind = "t" ->
                /\ local_strings' = Append(local_strings, event.text)
                /\ xml_pos' = xml_pos + 1
                /\ UNCHANGED <<self_strings, fc_result, succeeded, fc_pc>>
         [] event.kind = "error" ->
                /\ self_strings' = OnXmlError(self_strings, local_strings)
                /\ FcReturn(Err("Xml"))
                /\ UNCHANGED <<local_strings, xml_pos>>
         [] OTHER ->
                /\ xml_pos' = xml_pos + 1
                /\ UNCHANGED <<self_strings, local_strings, fc_result, succeeded, fc_pc>>
    /\ UNCHANGED <<exceptFc, fc_given, self_sheets, fc_name, fc_calls, rereads,
                   rescans>>

\* lines 142, 152: no event is left; self.strings = strings
FcStringsEnd ==
    /\ fc_pc = "xml"
    /\ xml_pos = Len(fc_given.shared.events)
    /\ self_strings' = local_strings
    /\ fc_pc' = "read_sheets_names"
    /\ UNCHANGED <<exceptFc, fc_given, self_sheets, local_strings, xml_pos, fc_name,
                   fc_calls, fc_result, succeeded, rereads, rescans>>

\* lines 99-129: read_sheets_names
FcSheetsNames ==
    /\ fc_pc = "read_sheets_names"
    /\ IF self_sheets # {}
       THEN /\ fc_pc' = "get"
            /\ UNCHANGED <<self_sheets, fc_result, succeeded, rescans>>
       ELSE LET scan == ScanFrom(fc_given.parts, 1, {}) IN
            /\ rescans' = IF succeeded THEN rescans + 1 ELSE rescans
            /\ IF scan.ok
               THEN /\ self_sheets' = scan.val
                    /\ fc_pc' = "get"
                    /\ UNCHANGED <<fc_result, succeeded>>
               ELSE /\ FcReturn(scan)
                    /\ UNCHANGED self_sheets
    /\ UNCHANGED <<exceptFc, fc_given, self_strings, local_strings, xml_pos, fc_name,
                   fc_calls, rereads>>

\* lines 89-94: self.sheets.get(name), Range::from_worksheet
FcGet ==
    /\ fc_pc = "get"
    /\ LET p == SheetsGet(self_sheets, fc_name) IN
       IF p.some
       THEN FcReturn(from_worksheet(fc_given.parts[p.val], p.val, self_strings))
       ELSE FcReturn(Err("Sheet does not exist"))
    /\ UNCHANGED <<exceptFc, fc_given, self_strings, self_sheets, local_strings,
                   xml_pos, fc_name, fc_calls, rereads, rescans>>

-----------------------------------------------------------------------------
(* worksheet_range on bounded workbooks *)

MaxSharedEvents == 2

XmlEvents ==
    {[kind |-> "t", text |-> "a"], [kind |-> "t", text |-> "b"],
     [kind |-> "other", text |-> ""], [kind |-> "error", text |-> ""]}

SharedGiven ==
    {[kind |-> k, events |-> <<>>] : k \in {"absent", "unreadable"}}
    \cup {[kind |-> "present", events |-> e] : e \in SeqsUpTo(XmlEvents, MaxSharedEvents)}

Worksheet(code_name, readable) ==
    [kind |-> "worksheet", code_name |-> code_name, readable |-> readable]

OtherPart == [kind |-> "other", code_name |-> "none", readable |-> TRUE]

PartsGiven ==
    {<<>>,
     <<Worksheet("none", TRUE)>>,
     <<Worksheet("Sheet1", TRUE)>>,
     <<Worksheet("Sheet1", FALSE)>>,
     <<Worksheet("not utf-8", TRUE)>>,
     <<OtherPart, Worksheet("Sheet1", TRUE), Worksheet("Sheet2", TRUE)>>,
     <<Worksheet("Sheet1", FALSE), Worksheet("Sheet1", TRUE)>>}

FcInit ==
    /\ fc_given \in [shared : SharedGiven, parts : PartsGiven]
    /\ self_strings = <<>>
    /\ self_sheets = {}
    /\ local_strings = <<>>
    /\ xml_pos = 0
    /\ fc_name = "none"
    /\ fc_calls = 0
    /\ fc_result = NoResult
    /\ succeeded = FALSE
    /\ rereads = 0
    /\ rescans = 0
    /\ fc_pc = "idle"

-----------------------------------------------------------------------------
(* Specifications: one per component, the other components idle *)

DimNext == CallGetRowColumn \/ CallGetDimension

InitDim == DimInit /\ RleIdle /\ CfbIdle /\ WsIdle /\ RefIdle /\ ModIdle /\ PjIdle /\ NewIdle /\ FcIdle

SpecDim == InitDim /\ [][DimNext]_vars

RleNext ==
    \/ ReadSignature
    \/ EndOfInput
    \/ ChunkHeaderEof
    \/ UncompressedChunk
    \/ CompressedChunk
    \/ ChunkEnd
    \/ ReadFlagByte
    \/ TokenBreak
    \/ LiteralToken
    \/ CopyToken

InitRle == RleInit /\ DimIdle /\ CfbIdle /\ WsIdle /\ RefIdle /\ ModIdle /\ PjIdle /\ NewIdle /\ FcIdle

SpecRle == InitRle /\ [][RleNext]_vars

\* the names get_stream is called with: "a", and "c", which no entry has
StreamNames == {<<97>>, <<99>>}

CfbNext ==
    \/ \E name \in StreamNames : GetStreamNotFound(name)
    \/ \E name \in StreamNames : GetStreamNoMiniPool(name)
    \/ \E name \in StreamNames : GetStreamReadChain(name)
    \/ ReadChainStep
    \/ ReadChainEnd

InitCfb == CfbInit /\ DimIdle /\ RleIdle /\ WsIdle /\ RefIdle /\ ModIdle /\ PjIdle /\ NewIdle /\ FcIdle

SpecCfb == InitCfb /\ [][CfbNext]_vars

WsNext ==
    \/ WsXmlError
    \/ WsOuterEof
    \/ WsDimension
    \/ WsSheetDataStart
    \/ WsOuterSkip
    \/ WsCellStart
    \/ WsSheetDataEnd
    \/ WsSheetSkip
    \/ WsSheetEof
    \/ WsCellChild
    \/ WsCellEnd
    \/ WsCellSkip
    \/ WsCellEof

InitWs == WsInit /\ DimIdle /\ RleIdle /\ CfbIdle /\ RefIdle /\ ModIdle /\ PjIdle /\ NewIdle /\ FcIdle

SpecWs == InitWs /\ [][WsNext]_vars

RefNext ==
    \/ RefCheckEof
    \/ RefTerminator
    \/ RefName
    \/ RefOriginal
    \/ RefControl
    \/ RefRegistered
    \/ RefProject
    \/ RefUnknown

InitRef == RefInit /\ DimIdle /\ RleIdle /\ CfbIdle /\ WsIdle /\ ModIdle /\ PjIdle /\ NewIdle /\ FcIdle

SpecRef == InitRef /\ [][RefNext]_vars

ModNext ==
    \/ ModPreamble
    \/ ModReturn
    \/ ModName
    \/ ModSectionEof
    \/ ModUnicodeName
    \/ ModStreamName
    \/ ModDocString
    \/ ModOffset
    \/ ModFixed
    \/ ModEnd
    \/ ModUnknown

InitMod == ModInit /\ DimIdle /\ RleIdle /\ CfbIdle /\ WsIdle /\ RefIdle /\ PjIdle /\ NewIdle /\ FcIdle

SpecMod == InitMod /\ [][ModNext]_vars

PjNext ==
    \/ PjGetStream
    \/ PjEndOfStream
    \/ PjInvalidData
    \/ PjLine

InitPj ==
    /\ PjInit /\ DimIdle /\ RleIdle /\ CfbIdle /\ WsIdle /\ RefIdle /\ ModIdle
    /\ NewIdle /\ FcIdle

SpecPj == InitPj /\ [][PjNext]_vars

NewNext ==
    \/ NewHeader
    \/ NewDif
    \/ NewDifEnd
    \/ NewFat
    \/ NewFatEnd

InitNew ==
    /\ NewInit /\ DimIdle /\ RleIdle /\ CfbIdle /\ WsIdle /\ RefIdle /\ ModIdle
    /\ PjIdle /\ FcIdle

SpecNew == InitNew /\ [][NewNext]_vars

FcNext ==
    \/ FcCall
    \/ FcStringsCached
    \/ FcStringsOpen
    \/ FcStringsEvent
    \/ FcStringsEnd
    \/ FcSheetsNames
    \/ FcGet

InitFc ==
    /\ FcInit /\ DimIdle /\ RleIdle /\ CfbIdle /\ WsIdle /\ RefIdle /\ ModIdle
    /\ PjIdle /\ NewIdle

SpecFc == InitFc /\ [][FcNext]_vars

-----------------------------------------------------------------------------
(* Claims about the dimension parser, checked under SpecDim *)

\* C5: get_dimension returns ((row, col), (1, 1)) for a single cell and, for a
\* range cell1:cell2 with cell2 not above or left of cell1, the origin
\* (row1, col1) with the extent (width, height) = (col2 - col1 + 1,
\* row2 - row1 + 1), also when width and height differ.
DimensionParsingResult ==
    dim_call = "get_dimension" =>
        /\ dim_given.kind = "cell" =>
               dim_result = Ok(<<<<dim_given.row, dim_given.col>>, <<1, 1>>>>)
        /\ (dim_given.kind = "range" /\ dim_given.r1 <= dim_given.r2
                                     /\ dim_given.c1 <= dim_given.c2) =>
               dim_result = Ok(<<<<dim_given.r1, dim_given.c1>>,
                                 <<dim_given.c2 - dim_given.c1 + 1,
                                   dim_given.r2 - dim_given.r1 + 1>>>>)

\* C6: decoding the A1 text of (r, c) with get_row_column yields (r, c), for
\* the upper-case and for the lower-case spelling of the column letters.
DimensionRoundTrip ==
    (dim_call = "get_row_column" /\ dim_given.kind = "cell") =>
        dim_result = Ok(<<dim_given.row, dim_given.col>>)

\* a lower-case cell with a two-letter column and a two-digit row was decoded
DimensionRoundTripWitness ==
    /\ dim_call = "get_row_column"
    /\ dim_given.kind = "cell"
    /\ dim_given.lower
    /\ dim_given.col > 26
    /\ dim_given.row >= 10
    /\ dim_result.ok

IsAlnum(c) == IsDigit(c) \/ IsUpper(c) \/ IsLower(c)

RECURSIVE TrailingDigits(_)
TrailingDigits(t) ==
    IF t = <<>> \/ ~IsDigit(t[Len(t)]) THEN <<>>
    ELSE TrailingDigits(Take(t, Len(t) - 1)) \o <<t[Len(t)]>>

\* the malformed tokens of 4.A: empty, a character outside A-Z/a-z/0-9,
\* letters after digits, no row suffix, a row that is not a positive integer
IsBadToken(t) ==
    \/ t = <<>>
    \/ \E i \in 1..Len(t) : ~IsAlnum(t[i])
    \/ \E i \in 1..Len(t) : \E j \in (i + 1)..Len(t) :
          IsDigit(t[i]) /\ ~IsDigit(t[j])
    \/ TrailingDigits(t) = <<>>
    \/ DecimalValue(TrailingDigits(t)) = 0

HasBadToken(text) ==
    LET p == ColonPosition(text) IN
    IF p = 0 THEN IsBadToken(text)
    ELSE IsBadToken(Take(text, p - 1)) \/ IsBadToken(Drop(text, p))

\* C7: get_row_column and get_dimension return an error, never a successful
\* result, for the empty string, letters after digits, a character outside the
\* alphanumeric alphabet, a missing row suffix and a row that is not a positive
\* integer (row 0 included).  The error type is not part of the sources, so
\* "Malformed" is read as: the call returns an error.
DimensionRejectsBadInput ==
    /\ (dim_call = "get_row_column" /\ dim_given.kind = "raw"
            /\ IsBadToken(dimension)) => ~dim_result.ok
    /\ (dim_call = "get_dimension" /\ dim_given.kind = "raw"
            /\ HasBadToken(dimension)) => ~dim_result.ok

-----------------------------------------------------------------------------
(* Claims about the RLE decompressor, checked under SpecRle *)

\* C8: for a compressed chunk with header H, decompress_stream consumes
\* exactly min(remaining input length after the header, (H & 0x0FFF) + 1)
\* payload bytes, so that the next chunk header is read at the chunk boundary.
\* (compressed_current counts the payload bytes consumed; the state is the one
\* in which the token-run loop of line 522 ends.)
RleChunkFraming ==
    (rle_pc = "run" /\ compressed_current >= compressed_end) =>
        compressed_current =
            Min(Len(r) + compressed_current,
                (compressed_chunk_header % 4096) + 1)

\* C9: decompress_stream ends when the input is exhausted; a chunk, compressed
\* or not, whose payload runs past the end of the input is truncated there and
\* the bytes decoded so far are returned without an error (so the only errors
\* are a missing or wrong signature byte and a chunk header cut in two); the
\* input [0x01], header 0x8003, flag byte 0x00, literal 0xAB yields [0xAB].
RleEndOfInput ==
    /\ rle_pc = "err" =>
          rle_err \in {"eof: signature", "invalid signature byte", "eof: chunk header"}
    /\ rle_pc = "done" => r = <<>>
    /\ (rle_pc = "done" /\ rle_input = ScenarioS6) => res = <<171>>

\* ceil(log2(d)) for 1 <= d <= 65536
ClaimCeilLog2(d) ==
    CHOOSE k \in 0..16 : Pow(2, k) >= d /\ (k = 0 \/ Pow(2, k - 1) < d)

ClaimBitCount(d) == IF d <= 16 THEN 4 ELSE ClaimCeilLog2(d)

\* a step of CopyToken that decodes a token and copies
CopyTokenCopies ==
    /\ rle_pc = "token"
    /\ compressed_current < compressed_end
    /\ IsCopyToken
    /\ Len(r) >= 2
    /\ rle_pc' \in {"token", "run"}

\* C10: with d = output length - the chunk's decompressed start, a copy token
\* is decoded with bit_count = max(ceil(log2(d)), 4), length = (token &
\* (0xFFFF >> bit_count)) + 3, offset = (token >> (16 - bit_count)) + 1, and
\* appends exactly length bytes, byte i of the copy being the output byte at
\* position (old output length - offset + i) at the time it is copied.
RleCopyToken ==
    [][CopyTokenCopies =>
        LET d == Len(res) - decompressed_start
            token == ReadU16(r)
            low == Pow(2, 16 - ClaimBitCount(d))
            length == (token % low) + 3
            offset == (token \div low) + 1
        IN  /\ Len(res') = Len(res) + length
            /\ SubSeq(res', 1, Len(res)) = res
            /\ \A i \in 0..(length - 1) :
                  res'[Len(res) + i + 1] = res'[Len(res) - offset + i + 1]
            /\ copy'.len = length /\ copy'.offset = offset]_vars

\* a copy token read with more than 16 bytes of chunk output (bit_count 5 or
\* more) has copied more bytes than its offset: the copy overlapped itself
RleCopyTokenWitness ==
    /\ rle_pc \in {"token", "run"}
    /\ copy.bit_count > 4
    /\ copy.len > copy.offset
    /\ copy.offset > 1
    /\ Len(res) = decompressed_start + copy.difference + copy.len

-----------------------------------------------------------------------------
(* Claims about the CFB container, checked under SpecCfb *)

\* the first directory entry whose name is `name` (0: none)
FirstNamed(name) ==
    IF \E i \in 1..Len(directories) : get_name(directories[i].ab) = name
    THEN CHOOSE i \in 1..Len(directories) :
            /\ get_name(directories[i].ab) = name
            /\ \A j \in 1..(i - 1) : get_name(directories[j].ab) # name
    ELSE 0

\* get_stream returned the chain of pool s from d's start sector, truncated
ReturnsChainOf(s, d) ==
    /\ read_chain(s, d.sect_start).some
    /\ gs_result = Some(Truncate(read_chain(s, d.sect_start).val, d.ul_size))

\* what a finished get_stream(gs_name) returned; small_without_mini says what
\* is returned for an entry below the cutoff when there is no mini pool
GetStreamReturned(small_without_mini(_)) ==
    gs_pc = "done" =>
        IF FirstNamed(gs_name) = 0 THEN gs_result = None
        ELSE LET d == directories[FirstNamed(gs_name)] IN
             IF d.ul_size < mini_sector_cutoff /\ mini_sectors.some
             THEN ReturnsChainOf(mini_sectors.val, d)
             ELSE IF d.ul_size < mini_sector_cutoff
             THEN small_without_mini(d)
             ELSE ReturnsChainOf(sectors, d)

ReturnsRegularChain(d) ==
    read_chain(sectors, d.sect_start).some => ReturnsChainOf(sectors, d)

ReturnsEmpty(d) == gs_result = Some(<<>>)

\* C2 as stated: get_stream(name) takes the first entry named name; below the
\* cutoff with a mini pool it returns the mini-pool chain from the entry's
\* start sector, in every other case (including below the cutoff with no mini
\* pool) the regular-pool chain; the bytes are truncated to the entry's size.
GetStreamLookupAsClaimed == GetStreamReturned(ReturnsRegularChain)

\* C2, amended: as above, but an entry below the cutoff in a container with no
\* mini pool yields an empty byte vector, not the regular-pool chain.
GetStreamLookup == GetStreamReturned(ReturnsEmpty)

\* get_stream skipped an entry with another name, read the mini pool and cut
\* the chain's bytes down to the entry's size
GetStreamLookupWitness ==
    /\ gs_pc = "done"
    /\ gs_entry = 3
    /\ chain_pool = "mini_sectors"
    /\ gs_result.some
    /\ gs_result.val # <<>>
    /\ Len(gs_result.val) < Len(buffer)

\* C3: read_chain(s) terminates for every start sector s of a directory
\* entry, and returns a whole number of sectors.  A walk that ends passes each
\* sector at most once, so it emits at most fats.len() sectors: a walk that has
\* emitted more never reaches ENDOFCHAIN.
ReadChainSound ==
    /\ gs_pc = "read_chain" => Len(buffer) <= Len(Pool.fats) * Pool.size
    /\ (gs_pc = "read_chain" /\ sector_id = ENDOFCHAIN) =>
          Len(buffer) % Pool.size = 0

-----------------------------------------------------------------------------
(* Claims about worksheet loading, checked under SpecWs *)

HasDimension(xml) ==
    \E i \in 1..Len(xml) : xml[i].ev = "Start" /\ xml[i].name = "dimension"

\* C4: every Range that from_worksheet returns successfully has
\* len(cells) = width * height, the extent of the worksheet's dimension
\* element, whatever <row>/<c> elements sheetData contains.
RangeDensity ==
    (ws_pc = "done" /\ HasDimension(ws_xml)) =>
        Len(data_inner) = data_size[1] * data_size[2]

-----------------------------------------------------------------------------
(* Claims about read_references, checked under SpecRef *)

IsNameRecord(rec) == rec.kind = "name"

IsNamedRecord(rec) == rec.kind = "name" /\ rec.name # <<>>

NamesOf(recs) == [i \in 1..Len(recs) |-> recs[i].name]

\* every record of the block can be read: its texts are UTF-8 and fit the
\* 512-byte buffer
WellFormed(given) ==
    /\ given.ending = "terminator"
    /\ \A i \in 1..Len(given.records) :
          IsUtf8(given.records[i].name) /\ Len(given.records[i].name) <= 512

-----------------------------------------------------------------------------
(* Claims about the PROJECT stream, checked under SpecPj *)

StartsWith(t, prefix) ==
    Len(t) >= Len(prefix) /\ Take(t, Len(prefix)) = prefix

\* the extension the line `Key=X` gives X, by the key it is written with
KeyExtensions ==
    {<<<<68, 111, 99, 117, 109, 101, 110, 116, 61>>, "cls">>,
     <<<<67, 108, 97, 115, 115, 61>>, "cls">>,
     <<<<77, 111, 100, 117, 108, 101, 61>>, "bas">>,
     <<<<66, 97, 115, 101, 67, 108, 97, 115, 115, 61>>, "frm">>}

\* what the written line asks for: the map entries it adds
Entries(written) ==
    {<<Drop(Trim(written), Len(ke[1])), ke[2]>> :
        ke \in {k \in KeyExtensions : StartsWith(Trim(written), k[1])}}

\* C14: each line the loop takes is a written line; a line `Document=X` or
\* `Class=X` maps X to "cls", `Module=X` maps X to "bas", `BaseClass=X` maps X
\* to "frm", and any other line (blank, starting with '[', without '=', or with
\* another key) leaves the map as it was; no line of a UTF-8 stream is an
\* error, and the loop ends only when every written line was taken.
ProjectLineSemantics ==
    /\ [][(pj_pc = "loop" /\ lines_read' = lines_read + 1) =>
            LET written == pj_given.lines[lines_read + 1] IN
            /\ pj_pc' = "loop"
            /\ \A e \in Entries(written) : code_modules' = Insert(code_modules, e[1], e[2])
            /\ Entries(written) = {} => code_modules' = code_modules]_vars
    /\ [](pj_pc = "err" =>
            \/ ~pj_given.present
            \/ \E i \in 1..Len(pj_given.lines) : ~IsUtf8(pj_given.lines[i]))
    /\ [](pj_pc = "done" =>
            \/ lines_read = Len(pj_given.lines)
            \/ lines_read = Len(pj_given.lines) - 1 /\ pj_given.lines[Len(pj_given.lines)] = <<>>)

\* C14 witness: a stream with a module line, a class line, and an ignored line
\* was read to its end
ProjectLineSemanticsWitness ==
    /\ pj_pc = "done"
    /\ pj_given.lines = <<L_MODULE_A, L_DOCUMENT_B, L_HOST>>
    /\ code_modules = {<<<<65>>, "bas">>, <<<<66>>, "cls">>}

-----------------------------------------------------------------------------
(* Claims about loading a container, checked under SpecNew *)

NewEnded == new_pc \in {"done", "err", "panic"}

BodyLen(g) == 8 * Len(g.sectors) + g.extra

\* the image length beyond the header is not a whole multiple of 2^sector_shift
NotWholeSectors(g) ==
    IF g.sector_shift >= 31 THEN BodyLen(g) # 0
    ELSE BodyLen(g) % Pow(2, g.sector_shift) # 0

\* the header names a sector to read as FAT or DIF data
ReadsASector(g) ==
    \/ g.first_fat # FREESECT
    \/ g.last_fat # FREESECT
    \/ g.dif_start \notin {FREESECT, ENDOFCHAIN}

\* C11: a complete image with a wrong signature, with a length beyond the
\* header that is not a whole multiple of 2^sector_shift, or with a sector
\* read as FAT or DIF data whose length is not a multiple of 4, makes
\* VbaProject::new return an error.
CfbConstructionErrors ==
    (/\ NewEnded
     /\ ~new_given.truncated
     /\ \/ ~new_given.sig_ok
        \/ NotWholeSectors(new_given)
        \/ new_given.sector_shift < 2 /\ ReadsASector(new_given))
    => new_pc = "err"

HeaderIds(g) ==
    [i \in 1..HeaderFatLen |->
        IF i = 1 THEN g.first_fat
        ELSE IF i = HeaderFatLen THEN g.last_fat
        ELSE FREESECT]

\* the DIF walk after n sectors: what it has appended and where it points
RECURSIVE DifWalk(_, _)
DifWalk(g, n) ==
    IF n = 0 THEN [list |-> <<>>, next |-> g.dif_start]
    ELSE LET w == DifWalk(g, n - 1) IN
         [list |-> w.list \o <<g.sectors[w.next + 1][1]>>,
          next |-> g.sectors[w.next + 1][2]]

\* the ids of the listed sectors that are not FREESECT, in list order
RECURSIVE ListedIds(_, _)
ListedIds(g, list) ==
    IF list = <<>> THEN <<>>
    ELSE IF Head(list) = FREESECT THEN ListedIds(g, Tail(list))
    ELSE <<g.sectors[Head(list) + 1][1], g.sectors[Head(list) + 1][2]>>
         \o ListedIds(g, Tail(list))

\* C16: the FAT-sector list is the 109 header ids followed by the ids of the
\* DIF sectors visited so far, each without its last id, which is the DIF
\* pointer; the FAT is loaded only when that pointer is ENDOFCHAIN or
\* FREESECT, and the master FAT is the concatenation, in list order, of the
\* ids of every listed sector whose id is not FREESECT.
FatReconstruction ==
    /\ new_pc \in {"dif", "fat", "done"} =>
        /\ fat_sectors = HeaderIds(new_given) \o DifWalk(new_given, dif_steps).list
        /\ dif_sector_id = DifWalk(new_given, dif_steps).next
    /\ new_pc \in {"fat", "done"} => dif_sector_id \in {ENDOFCHAIN, FREESECT}
    /\ new_pc = "done" =>
        /\ fat = ListedIds(new_given, fat_sectors)
        /\ sector.fats = fat

\* C16 witness: a container was loaded whose DIF walk visited every sector and
\* whose header lists a FAT sector in its last place
FatReconstructionWitness ==
    /\ new_pc = "done"
    /\ dif_steps = NumImageSectors
    /\ new_given.last_fat # FREESECT
    /\ Len(fat) >= 4

\* C18: the DIF walk ends; a walk that ends reads no sector twice, so it reads
\* at most as many sectors as the image holds.
DifWalkTerminates == dif_steps <= NumImageSectors

-----------------------------------------------------------------------------
(* Claims about the workbook facade, checked under SpecFc *)

\* C13: once a call has returned a Range, no later call reads
\* xl/sharedStrings.xml and no later call scans the parts for names.
FacadeCachesBuiltOnce == rereads = 0 /\ rescans = 0

\* the texts of the <t> elements, in document order
RECURSIVE TextsOf(_)
TextsOf(events) ==
    IF events = <<>> THEN <<>>
    ELSE IF Head(events).kind = "t" THEN <<Head(events).text>> \o TextsOf(Tail(events))
    ELSE TextsOf(Tail(events))

XmlFails(g) ==
    /\ g.shared.kind = "present"
    /\ \E i \in 1..Len(g.shared.events) : g.shared.events[i].kind = "error"

\* the parts that carry the name
Carrying(g, name) ==
    {i \in 1..Len(g.parts) :
        g.parts[i].kind = "worksheet" /\ g.parts[i].code_name = name}

\* C20: the cached table is empty or the complete table of a
\* sharedStrings.xml that has no XML error; a call fails, and returns no
\* Range, when sharedStrings.xml has an XML error, when no part carries the
\* name, or when the worksheet that answers to the name cannot be read; a
\* Range that was returned was built with the empty or the complete table.
CacheFrameOnFailure ==
    /\ \/ self_strings = <<>>
       \/ /\ ~XmlFails(fc_given)
          /\ self_strings = TextsOf(fc_given.shared.events)
    /\ (/\ fc_pc = "idle"
        /\ fc_calls > 0
        /\ \/ XmlFails(fc_given)
           \/ Carrying(fc_given, fc_name) = {}
           \/ \E i \in Carrying(fc_given, fc_name) :
                /\ \A j \in Carrying(fc_given, fc_name) : j <= i
                /\ ~fc_given.parts[i].readable)
       => ~fc_result.ok
    /\ fc_result.ok =>
        fc_result.val.strings \in {<<>>, TextsOf(fc_given.shared.events)}

\* C20 witness: a call failed on an XML error after a string had been read
CacheFrameOnFailureWitness ==
    /\ fc_pc = "idle"
    /\ fc_result = Err("Xml")
    /\ local_strings # <<>>
    /\ xml_pos = Len(local_strings)
    /\ self_strings = <<>>

-----------------------------------------------------------------------------
(* Further claims about worksheet loading, checked under SpecWs *)

\* C12: a cell with t="s" whose <v> holds idx becomes String(table[idx]) when
\* idx < len(table); when idx >= len(table) the read returns an error to the
\* caller: it neither produces an Empty cell nor aborts.  (A "panic" state
\* whose current event is <v> is the abort of strings[idx].)
SharedStringFidelity ==
    /\ \A i \in 1..Len(data_inner) :
          data_inner[i].type = "String" =>
             \E j \in 1..Len(strings) : data_inner[i].text = strings[j]
    /\ ~(ws_pc = "panic" /\ ~AtEnd /\ Cur = Start("v", None))

-----------------------------------------------------------------------------
(* Further claims about the RLE decompressor, checked under SpecRle *)

\* C17: for every input decompress_stream accepts, each
\* copy token's source position (output length - offset) is at or after the
\* chunk's decompressed start, i.e. its offset is at most the number of bytes
\* the chunk has produced.  (copy holds the last copy token decoded.)
CopyTokenBounds ==
    (rle_pc = "done" /\ copy # NoCopy) => copy.offset <= copy.difference

\* a step of the chunk loop or of the token-run loop
LoopIteration ==
    \/ rle_pc = "chunk"
    \/ rle_pc = "run" /\ compressed_current < compressed_end

\* how far the call is from its end: the unread bytes, then the position in
\* the loops (token loop inside token-run loop inside chunk loop)
RleMeasure ==
    4 * Len(r) + (CASE rle_pc = "token" -> 3
                    [] rle_pc = "run" -> 2
                    [] rle_pc \in {"start", "chunk"} -> 1
                    [] OTHER -> 0)

\* C19, checked under SpecRle: decompress_stream terminates on every finite
\* input, because every iteration of the chunk loop and of the token-run loop
\* consumes at least one input byte or returns: every step brings the call
\* closer to its end, so no run of the call has infinitely many steps.
RleTerminates ==
    [][/\ RleMeasure' < RleMeasure
       /\ LoopIteration =>
             Len(r') < Len(r) \/ rle_pc' \in {"done", "err", "panic"}]_vars

\* the call returned after two chunks, a token run and a copy
RleTerminatesWitness ==
    /\ rle_pc = "done"
    /\ rle_input = UncompressedThenCopy
    /\ Len(res) = 4099

-----------------------------------------------------------------------------
(* Claims about read_modules, checked under SpecMod *)

SectionIds == {71, 26, 28, 49, 30, 44, 33, 34, 37, 40, 43}

\* index of the last section of m with this id, 0 when there is none
LastSection(m, id) ==
    IF \E i \in 1..Len(m.sections) : m.sections[i].id = id
    THEN CHOOSE i \in 1..Len(m.sections) :
            /\ m.sections[i].id = id
            /\ \A j \in (i + 1)..Len(m.sections) : m.sections[j].id # id
    ELSE 0

\* the Module a given module stands for
ModuleOf(m) ==
    [name |-> m.name,
     stream_name |-> IF LastSection(m, 26) = 0 THEN <<>>
                     ELSE m.sections[LastSection(m, 26)].text,
     text_offset |-> IF LastSection(m, 49) = 0 THEN 0
                     ELSE m.sections[LastSection(m, 49)].offset]

\* a module that can be read: known section ids, 0x002B last, texts that are
\* UTF-8 and fit the 512-byte buffer
ReadableModule(m) ==
    /\ Len(m.name) <= 512 /\ IsUtf8(m.name)
    /\ m.sections # <<>>
    /\ \A i \in 1..Len(m.sections) :
          /\ m.sections[i].id \in SectionIds
          /\ IsUtf8(m.sections[i].text)
          /\ (m.sections[i].id = 43) = (i = Len(m.sections))

ReadableBlock(given) ==
    /\ given.count <= Len(given.mods)
    /\ \A i \in 1..given.count : ReadableModule(given.mods[i])

\* the first thing of the block that cannot be read is a section id outside
\* the known ones
UnknownSectionFirst(given) ==
    \E i \in 1..Min(given.count, Len(given.mods)) :
       \E j \in 1..Len(given.mods[i].sections) :
          LET m == given.mods[i] IN
          /\ \A k \in 1..(i - 1) : ReadableModule(given.mods[k])
          /\ Len(m.name) <= 512 /\ IsUtf8(m.name)
          /\ m.sections[j].id \notin SectionIds
          /\ \A k \in 1..(j - 1) :
                /\ m.sections[k].id \in SectionIds \ {43}
                /\ IsUtf8(m.sections[k].text)

\* C15: read_modules reads module_count from the preamble and returns exactly
\* module_count modules in input order, each ended by its 0x002B sub-record
\* and carrying the stream name of its 0x001A sub-record and the text offset
\* of its 0x0031 sub-record; a sub-tag outside the known ones makes the call
\* return an error and no module list.
ModuleBlockParsing ==
    /\ mod_pc = "done" =>
          /\ ReadableBlock(mod_given)
          /\ modules = [i \in 1..mod_given.count |-> ModuleOf(mod_given.mods[i])]
    /\ mod_pc \in {"err", "panic"} => ~ReadableBlock(mod_given)
    /\ (mod_pc \in {"done", "err", "panic"} /\ UnknownSectionFirst(mod_given)) =>
          mod_pc = "err" /\ mod_err = "unknown or invalid module section id"

\* two modules were returned, one of them read through every kind of section
ModuleBlockParsingWitness ==
    /\ mod_pc = "done"
    /\ Len(modules) = 2
    /\ modules[1].stream_name # modules[2].stream_name
    /\ modules[2].text_offset = 7
    /\ \E j \in 1..Len(mod_given.mods[2].sections) :
          mod_given.mods[2].sections[j].id = 44

=============================================================================
